---- MODULE Spec2Model ----
(***************************************************************************)
(* The anomaly-detection ensemble of ayvlo/Whole                           *)
(* (src/unnamed/part_005, lines 783-1574: advanced-detector.ts).           *)
(*                                                                         *)
(* Numbers.  Historical values and candidate values are integers, on which *)
(* IEEE doubles are exact.  Every derived real (a score, a weight, a       *)
(* confidence, a standard deviation) is held in fixed point, in units of   *)
(* 1/Scale, rounded down; every comparison the code makes between reals    *)
(* that are rational in the inputs (z > threshold, value < lowerBound,     *)
(* ...) is made exactly, on cross-multiplied integers.  The JavaScript     *)
(* value NaN is the sentinel NaN; x/0 with x > 0 is Infinity and is        *)
(* handled where the code can produce it (iqr).                            *)
(***************************************************************************)
EXTENDS Integers, Sequences, FiniteSets, TLC

VARIABLES
    config,          \* EnterpriseAnomalyDetector.config (set by the constructor)
    performance,     \* EnterpriseAnomalyDetector.performance (name -> f1Score)
    historicalData,  \* the caller's historicalData, as the sequence of its values
    call,            \* the last detect() call: its dataPoint value, how it ended, its result
    prior,           \* the detect() call that ended before the last one
    calls,           \* the number of detect() calls made so far
    tasks,           \* the detect() calls in flight, each at one of its awaits
    activeSpans,     \* DistributedTracer.activeSpans, as the number of spans it holds
    metricKeys,      \* ObservabilityEngine: the metric names recorded so far
    now,             \* Date.now(), in units of one window fraction
    breaker,         \* a CircuitBreaker and the calls made through it
    limiter,         \* a RateLimiter, its local and Redis stores, the calls made to it
    bulkhead,        \* a Bulkhead and the requests made to it
    coalescer,       \* a RequestCoalescer and the coalesce() calls made to it
    audit,           \* the audit log table and the logAction() calls in flight
    abac,            \* an ABACEngine's policies, a request and its decision
    events,          \* an EventStreamProcessor: handlers, dead letters, windows
    cache,           \* an LRUCache and the order of its entries
    usage,           \* the usageRecord table and the recordUsage() calls in flight
    forest           \* one MLDetectors.isolationForest call, trial by trial

(* The state of the detector, of its tracer and of its metrics *)
detectorVars ==
    <<config, performance, historicalData, call, prior, calls, tasks,
      activeSpans, metricKeys>>

(* The state of the resilience layer (src/unnamed/part_001) *)
resilienceVars == <<now, breaker, limiter, bulkhead>>

(* The detector's state other than the metrics, which the resilience layer *)
(* records too                                                             *)
detectorOnly ==
    <<config, performance, historicalData, call, prior, calls, tasks, activeSpans>>

(* The state of the other libraries: request coalescing, audit log, ABAC,  *)
(* event stream, cache and billing; and of an isolation forest run alone   *)
platformVars == <<coalescer, audit, abac, events, cache, usage, forest>>

vars ==
    <<config, performance, historicalData, call, prior, calls, tasks,
      activeSpans, metricKeys, now, breaker, limiter, bulkhead,
      coalescer, audit, abac, events, cache, usage, forest>>

----------------------------------------------------------------------------
(* Bounds of the model *)

MaxVal == 2
MaxLen == 11
MaxPat == 2
NumTrees == 2
MaxLimit == 2
MaxNow == 4
MaxRequests == 5

(* Fixed point: one unit is 1/Scale *)
Scale == 10 * 10 * 10

(* The JavaScript NaN: no score, value or weight of the model is this low *)
NaN == 0 - (Scale * Scale)

----------------------------------------------------------------------------
(* Arithmetic helpers *)

Abs(x) == IF x < 0 THEN 0 - x ELSE x

Min2(a, b) == IF a < b THEN a ELSE b

RECURSIVE SumSeq(_)
SumSeq(s) == IF s = <<>> THEN 0 ELSE Head(s) + SumSeq(Tail(s))

RECURSIVE ISqrtIter(_, _, _)
ISqrtIter(x, lo, hi) ==
    IF lo >= hi THEN lo
    ELSE LET mid == (lo + hi + 1) \div 2
         IN  IF mid * mid <= x THEN ISqrtIter(x, mid, hi)
             ELSE ISqrtIter(x, lo, mid - 1)

(* Math.sqrt on a fixed-point square: the largest r with r*r <= x *)
ISqrt(x) == ISqrtIter(x, 0, 46340)

(* Quotient and remainder of num * 10^digits by den, one decimal digit at a *)
(* time, so that no intermediate exceeds 10 * den; num >= 0 and den > 0     *)
RECURSIVE LongDiv(_, _, _)
LongDiv(num, den, digits) ==
    IF digits = 0 THEN [q |-> num \div den, r |-> num % den]
    ELSE LET p == LongDiv(num, den, digits - 1)
         IN  [q |-> 10 * p.q + (10 * p.r) \div den, r |-> (10 * p.r) % den]

(* floor(num * Scale / den), for num >= 0 and den > 0 (Scale = 10^3) *)
ScaledDiv(num, den) == LongDiv(num, den, 3).q

(* floor(num * Scale^2 / den), for num >= 0 and den > 0 *)
ScaledDiv2(num, den) == LongDiv(num, den, 6).q

(* Math.sqrt(num / den) in fixed point: exact to 1/Scale while the square   *)
(* in units of 1/Scale^2 fits an integer, and to fewer decimals above that  *)
(* (a double keeps a relative precision, not an absolute one)               *)
RECURSIVE SqrtRatio(_, _, _)
SqrtRatio(num, den, k) ==
    IF k = 0 \/ (num \div den) < 2000000000 \div (100 ^ k)
    THEN ISqrt(LongDiv(num, den, 2 * k).q) * (10 ^ (3 - k))
    ELSE SqrtRatio(num, den, k - 1)

(* Array.prototype.sort((a, b) => a - b): insertion into an ascending sequence *)
RECURSIVE Insert(_, _)
Insert(x, s) ==
    IF s = <<>> THEN <<x>>
    ELSE IF x <= Head(s) THEN <<x>> \o s
    ELSE <<Head(s)>> \o Insert(x, Tail(s))

RECURSIVE SortAsc(_)
SortAsc(s) == IF s = <<>> THEN <<>> ELSE Insert(Head(s), SortAsc(Tail(s)))

Range(s) == {s[i] : i \in DOMAIN s}

----------------------------------------------------------------------------
(* StatisticalDetectors *)

(* n * mean = sum, so value - mean = (n*value - sum)/n;                    *)
(* SumSq(data) = sum of (n*x - sum)^2 = n^3 * variance                     *)
SumSq(data) ==
    LET n == Len(data)
        s == SumSeq(data)
    IN  SumSeq([i \in 1..n |-> (n * data[i] - s) * (n * data[i] - s)])

(* z^2 = (value - mean)^2 / variance = (n*value - sum)^2 / (SumSq / n):    *)
(* SumSq = n * (n * (sum of x^2) - sum^2) is a multiple of n.  ZNum is the *)
(* numerator of that fraction and ZDen its denominator.                    *)
ZNum(value, data) ==
    LET d == Len(data) * value - SumSeq(data)
    IN  d * d

ZDen(data) == SumSq(data) \div Len(data)

(* |value - mean| / stdDev in fixed point, for SumSq(data) > 0 *)
ZFixed(value, data) == SqrtRatio(ZNum(value, data), ZDen(data), 3)

zScore(value, data, threshold) ==
    IF Len(data) < 2
    THEN [isAnomaly |-> FALSE, score |-> 0, deviation |-> 0]
    ELSE IF SumSq(data) = 0
    THEN [isAnomaly |-> FALSE, score |-> 0, deviation |-> 0]
    ELSE IF value = NaN
    THEN [isAnomaly |-> FALSE, score |-> NaN, deviation |-> NaN]
    ELSE LET num == ZNum(value, data)
             den == threshold * threshold * ZDen(data)
         IN  [isAnomaly |-> num > den,
              score     |-> IF num >= den THEN Scale
                            ELSE ISqrt(ScaledDiv2(num, den)),
              deviation |-> ZFixed(value, data)]

(* median(sorted), doubled so that it stays an integer: the middle element *)
(* of an odd-length array, the mean of the two middle ones otherwise.  It  *)
(* reads the positions of the array it is given, sorted or not.            *)
median2(sorted) ==
    LET n   == Len(sorted)
        mid == n \div 2
    IN  IF n % 2 = 0 THEN sorted[mid] + sorted[mid + 1]
        ELSE 2 * sorted[mid + 1]

(* mad: deviations are |x - median| doubled; their "median" is taken of    *)
(* the deviations in data order (the code does not sort them); mad4 is     *)
(* 4 * mad.  modifiedZ = 0.6745*|value - median|/mad                       *)
(*           = 1349 * |2*value - median2| / (1000 * mad4)                  *)
madDeviations2(data) ==
    LET m2 == median2(SortAsc(data))
    IN  [i \in 1..Len(data) |-> Abs(2 * data[i] - m2)]

mad4Of(data) == median2(madDeviations2(data))

mad(value, data) ==
    IF Len(data) < 2
    THEN [isAnomaly |-> FALSE, score |-> 0, deviation |-> 0]
    ELSE IF mad4Of(data) = 0
    THEN [isAnomaly |-> FALSE, score |-> 0, deviation |-> 0]
    ELSE IF value = NaN
    THEN [isAnomaly |-> FALSE, score |-> NaN, deviation |-> NaN]
    ELSE LET m2  == median2(SortAsc(data))
             num == 1349 * Abs(2 * value - m2)
             den == 1000 * mad4Of(data)
         IN  \* threshold 3.5 = 7/2: modifiedZ > 3.5 iff 2*num > 7*den
             [isAnomaly |-> 2 * num > 7 * den,
              score     |-> IF 2 * num >= 7 * den THEN Scale
                            ELSE ScaledDiv(2 * num, 7 * den),
              deviation |-> ScaledDiv(num, den)]

(* percentile(sorted, p) times 4, for p = 25 (k = 1) and p = 75 (k = 3):   *)
(* index = k*(n-1)/4, lower = floor, upper = ceil, weight = index - lower  *)
percentile4(sorted, k) ==
    LET n     == Len(sorted)
        lower == (k * (n - 1)) \div 4
        w4    == (k * (n - 1)) % 4
        upper == IF w4 = 0 THEN lower ELSE lower + 1
    IN  sorted[lower + 1] * (4 - w4) + sorted[upper + 1] * w4

(* iqr with the clamp Math.min(distance, 1) left out *)
iqrUnclamped(value, data) ==
    IF Len(data) < 4
    THEN [isAnomaly |-> FALSE, score |-> 0, expectedRange |-> <<0, 0>>]
    ELSE LET sorted == SortAsc(data)
             q1     == percentile4(sorted, 1)
             q3     == percentile4(sorted, 3)
             iqr4   == q3 - q1
             lower8 == 2 * q1 - 3 * iqr4
             upper8 == 2 * q3 + 3 * iqr4
             below  == value # NaN /\ 8 * value < lower8
             above  == value # NaN /\ 8 * value > upper8
             gap8   == IF below THEN lower8 - 8 * value
                       ELSE IF above THEN 8 * value - upper8
                       ELSE 0
         IN  [isAnomaly |-> below \/ above,
              score     |-> IF gap8 = 0 THEN 0
                            ELSE IF iqr4 = 0 THEN Scale
                            ELSE ScaledDiv(gap8, 2 * iqr4),
              expectedRange |-> <<lower8, upper8>>]

(* iqr with multiplier 1.5 = 3/2.  iqr4 = 4*IQR; the bounds are in eighths:*)
(* lowerBound8 = 8*(q1 - 1.5*IQR) = 2*q1_4 - 3*iqr4.                       *)
(* distance = (bound gap)/IQR = gap8 / (2*iqr4); a positive gap over       *)
(* IQR = 0 is Infinity, and Math.min(Infinity, 1) = 1.                     *)
iqr(value, data) ==
    IF Len(data) < 4
    THEN [isAnomaly |-> FALSE, score |-> 0, expectedRange |-> <<0, 0>>]
    ELSE LET sorted == SortAsc(data)
             q1     == percentile4(sorted, 1)
             q3     == percentile4(sorted, 3)
             iqr4   == q3 - q1
             lower8 == 2 * q1 - 3 * iqr4
             upper8 == 2 * q3 + 3 * iqr4
             below  == value # NaN /\ 8 * value < lower8
             above  == value # NaN /\ 8 * value > upper8
             gap8   == IF below THEN lower8 - 8 * value
                       ELSE IF above THEN 8 * value - upper8
                       ELSE 0
         IN  [isAnomaly |-> below \/ above,
              score     |-> IF gap8 = 0 THEN 0
                            ELSE IF iqr4 = 0 THEN Scale
                            ELSE Min2(ScaledDiv(gap8, 2 * iqr4), Scale),
              expectedRange |-> <<lower8, upper8>>]

----------------------------------------------------------------------------
(* MLDetectors *)

(* Math.ceil(Math.log2(n)) *)
RECURSIVE CeilLog2Iter(_, _, _)
CeilLog2Iter(n, m, p) == IF p >= n THEN m ELSE CeilLog2Iter(n, m + 1, 2 * p)

(* A depth limit of data.length in place of ceil(log2(data.length)) *)
CeilLog2Linear(n) == n

CeilLog2(n) == CeilLog2Iter(n, 0, 1)

(* The depths one isolationDepth trial can return.  split = min +          *)
(* Math.random()*(max - min) lies in [min, max); what it decides is the    *)
(* side of value and which elements are below it.  With d(1) < ... < d(k)  *)
(* the distinct elements of subset, the elements below split are those     *)
(* <= d(j) for some j in 0..k-1 (j = 0: none, split = min).  There,        *)
(* value < split is possible iff value < d(j+1), and value >= split iff    *)
(* j = 0 and value >= d(1), or j >= 1 and value > d(j).  A NaN value is    *)
(* never < split.                                                          *)
RECURSIVE isolationDepths(_, _, _, _)
isolationDepths(value, subset, depth, maxDepth) ==
    IF ~(Len(subset) > 1 /\ depth < maxDepth) THEN {depth}
    ELSE LET D    == Range(subset)
             k    == Cardinality(D)
             d(j) == CHOOSE x \in D : Cardinality({y \in D : y < x}) = j - 1
             below(j)   == IF j = 0 THEN <<>>
                           ELSE SelectSeq(subset, LAMBDA x : x <= d(j))
             notBelow(j) == IF j = 0 THEN subset
                            ELSE SelectSeq(subset, LAMBDA x : x > d(j))
             canBelow(j) == value # NaN /\ value < d(j + 1)
             canNotBelow(j) == value = NaN
                               \/ (IF j = 0 THEN value >= d(1) ELSE value > d(j))
         IN  UNION {
               (IF canBelow(j)
                THEN isolationDepths(value, below(j), depth + 1, maxDepth)
                ELSE {})
               \cup
               (IF canNotBelow(j)
                THEN isolationDepths(value, notBelow(j), depth + 1, maxDepth)
                ELSE {})
               : j \in 0..(k - 1) }

isolationDepth(value, data) ==
    isolationDepths(value, data, 0, CeilLog2(Len(data)))

(* The sums of t depths, each one a depth a trial can return *)
RECURSIVE depthSums(_, _)
depthSums(t, depths) ==
    IF t = 0 THEN {0}
    ELSE {s + x : s \in depthSums(t - 1, depths), x \in depths}

(* Math.log(m) in fixed point, m in 1..40 *)
LnTable ==
    <<0, 693, 1099, 1386, 1609, 1792, 1946, 2079, 2197, 2303,
      2398, 2485, 2565, 2639, 2708, 2773, 2833, 2890, 2944, 2996,
      3045, 3091, 3135, 3178, 3219, 3258, 3296, 3332, 3367, 3401,
      3434, 3466, 3497, 3526, 3555, 3584, 3611, 3638, 3664, 3689>>

(* 2 * (ln(n - 1) + 0.5772156649) - 2*(n - 1)/n, in fixed point *)
expectedIsolationDepth(n) ==
    IF n <= 1 THEN 0
    ELSE 2 * (LnTable[n - 1] + 577) - ScaledDiv(2 * (n - 1), n)

(* 2^(-2^(-j)) for j = 1..10, in units of 1/10000 *)
HalfPowers == <<7071, 8409, 9170, 9576, 9786, 9892, 9946, 9973, 9986, 9993>>

(* Math.pow(2, -x) for x = x1024/1024 >= 0, in units of 1/10000: halve     *)
(* once per unit of x, and multiply by 2^(-2^(-j)) for each binary digit   *)
(* j of its fraction                                                       *)
RECURSIVE Pow2NegIter(_, _, _)
Pow2NegIter(frac, j, acc) ==
    IF j > 10 THEN acc
    ELSE LET bit == (frac \div (2 ^ (10 - j))) % 2
         IN  Pow2NegIter(frac, j + 1,
                         IF bit = 1 THEN (acc * HalfPowers[j]) \div 10000 ELSE acc)

Pow2Neg(x1024) ==
    Pow2NegIter(x1024 % 1024, 1, 10000 \div (2 ^ (x1024 \div 1024)))

(* isolationForest, given the sum of the depths of its numTrees trials:    *)
(* avgDepth/expectedDepth = totalDepth*Scale/(numTrees*expectedDepth)      *)
isolationForest(value, data, numTrees, totalDepth) ==
    IF Len(data) < 10
    THEN [isAnomaly |-> FALSE, score |-> 0]
    ELSE LET expectedDepth == expectedIsolationDepth(Len(data))
             x1024 == (totalDepth * Scale * 1024) \div (numTrees * expectedDepth)
             anomalyScore == Pow2Neg(x1024) \div 10
         IN  [isAnomaly |-> anomalyScore > (6 * Scale) \div 10,
              score     |-> anomalyScore]

(* The values totalDepth can take in one isolationForest call *)
totalDepths(value, data, numTrees) ==
    IF Len(data) < 10 THEN {0}
    ELSE depthSums(numTrees, isolationDepth(value, data))

(* The first k distances |d - value| in the order of the data, not sorted  *)
lofDistancesUnsorted(value, data, k) ==
    SubSeq([i \in 1..Len(data) |-> Abs(data[i] - value)], 1, k)

(* The k smallest elements' sum and the k-th smallest, of the distances    *)
(* |d - value|                                                             *)
lofDistances(value, data, k) ==
    SubSeq(SortAsc([i \in 1..Len(data) |-> Abs(data[i] - value)]), 1, k)

(* lof with k = 5: lofScore = (sum/k) / (kth + 0.0001)                     *)
(*                          = sum*10000 / (k*(10000*kth + 1))              *)
lof(value, data, k) ==
    IF Len(data) < k + 1
    THEN [isAnomaly |-> FALSE, score |-> 0]
    ELSE IF value = NaN
    THEN [isAnomaly |-> FALSE, score |-> NaN]
    ELSE LET distances == lofDistances(value, data, k)
             num == SumSeq(distances) * 10000
             den == k * (10000 * distances[k] + 1)
         IN  \* lofScore > 1.5 iff 2*num > 3*den; score = min(lofScore/2, 1)
             [isAnomaly |-> 2 * num > 3 * den,
              score     |-> IF num >= 2 * den THEN Scale
                            ELSE ScaledDiv(num, 2 * den)]

----------------------------------------------------------------------------
(* NaN-propagating arithmetic on fixed-point numbers *)

FAdd(a, b) == IF a = NaN \/ b = NaN THEN NaN ELSE a + b

FMul(a, b) == IF a = NaN \/ b = NaN THEN NaN ELSE a * b

(* a / b as a number: 0/0 is NaN (b = 0 happens only with a = 0 here) *)
FDiv(a, b) == IF a = NaN \/ b = NaN \/ b = 0 THEN NaN ELSE a \div b

(* a / b kept as the exact fraction num/den, or NaN *)
FRatio(a, b) ==
    IF a = NaN \/ b = NaN \/ (a = 0 /\ b = 0)
    THEN [num |-> NaN, den |-> 1]
    ELSE [num |-> a, den |-> b]

(* a >= b in place of a > b *)
FGe(a, b) == a # NaN /\ b # NaN /\ a >= b

(* a > b on numbers: false when either is NaN *)
FGt(a, b) == a # NaN /\ b # NaN /\ a > b

RECURSIVE FSum(_)
FSum(s) == IF s = <<>> THEN 0 ELSE FAdd(Head(s), FSum(Tail(s)))

----------------------------------------------------------------------------
(* EnterpriseAnomalyDetector *)

(* The detectors detect() can run, in the order in which it runs them *)
Implemented == <<"zscore", "mad", "iqr", "isolation-forest", "lof">>

(* shouldRunAlgorithm without the "ensemble" clause *)
shouldRunAlgorithmNamedOnly(algorithm) ==
    algorithm \in Range(config.algorithms)

shouldRunAlgorithm(algorithm) ==
    \/ "ensemble" \in Range(config.algorithms)
    \/ algorithm \in Range(config.algorithms)

(* getThreshold with one low threshold for every sensitivity *)
getThresholdLow == (3 * Scale) \div 10

(* getThreshold with a threshold that the calls already made have lowered *)
getThresholdLearned ==
    IF calls = 0 THEN (6 * Scale) \div 10 ELSE (3 * Scale) \div 10

getThreshold ==
    CASE config.sensitivity = "low"      -> (7 * Scale) \div 10
      [] config.sensitivity = "medium"   -> (6 * Scale) \div 10
      [] config.sensitivity = "high"     -> (5 * Scale) \div 10
      [] config.sensitivity = "adaptive" -> (6 * Scale) \div 10

(* getSensitivityThreshold returning zScore's default threshold *)
getSensitivityThresholdDefault == 3

getSensitivityThreshold ==
    CASE config.sensitivity = "low"      -> 4
      [] config.sensitivity = "medium"   -> 3
      [] config.sensitivity = "high"     -> 2
      [] config.sensitivity = "adaptive" -> 3

(* determineSeverity reading the score alone, not score * confidence *)
determineSeverityByScore(score, confidence) ==
    IF FGt(score, (8 * Scale) \div 10) THEN "critical"
    ELSE IF FGt(score, (6 * Scale) \div 10) THEN "warning"
    ELSE "info"

(* score * confidence against 0.8 and 0.6; a NaN compares false *)
determineSeverity(score, confidence) ==
    LET combinedScore == FMul(score, confidence)
    IN  IF FGt(combinedScore, (8 * Scale * Scale) \div 10) THEN "critical"
        ELSE IF FGt(combinedScore, (6 * Scale * Scale) \div 10) THEN "warning"
        ELSE "info"

(* One entry of AnomalyResult.algorithms; contribution 0 until the ensemble *)
(* sets it.  executionTime is a clock difference and is left out.           *)
Entry(name, result) ==
    [name         |-> name,
     score        |-> result.score,
     isAnomaly    |-> result.isAnomaly,
     contribution |-> [num |-> 0, den |-> 1]]

runZScore(value, data) ==
    Entry("zscore", zScore(value, data, getSensitivityThreshold))

runMAD(value, data) == Entry("mad", mad(value, data))

runIQR(value, data) == Entry("iqr", iqr(value, data))

runIsolationForest(value, data, totalDepth) ==
    Entry("isolation-forest", isolationForest(value, data, NumTrees, totalDepth))

runLOF(value, data) == Entry("lof", lof(value, data, 5))

(* calculateAlgorithmWeights with equal weights under every weighting *)
calculateAlgorithmWeightsEqual(results) ==
    [i \in 1..Len(results) |-> Scale]

calculateAlgorithmWeights(results) ==
    IF config.ensembleWeighting = "performance"
    THEN [i \in 1..Len(results) |->
            IF results[i].name \in DOMAIN performance
            THEN performance[results[i].name]
            ELSE Scale]
    ELSE IF config.ensembleWeighting = "confidence"
    THEN [i \in 1..Len(results) |-> FAdd(results[i].score, Scale \div 10)]
    ELSE [i \in 1..Len(results) |-> Scale]

(* ensembleVote with each contribution divided by the weight-normalising    *)
(* denominator totalWeight instead of weightedScore                         *)
ensembleVoteByTotalWeight(results) ==
    IF Len(results) = 0
    THEN [isAnomaly |-> FALSE, confidence |-> 0, severity |-> "info",
          score |-> 0, algorithms |-> <<>>]
    ELSE LET n == Len(results)
             weights == calculateAlgorithmWeights(results)
             weightedScore ==
                 FSum([i \in 1..n |-> FMul(results[i].score, weights[i])])
             totalWeight == FSum(weights)
             normalizedScore == FDiv(weightedScore, totalWeight)
             threshold == getThreshold
             isAnomaly == FGt(normalizedScore, threshold)
             agree == Cardinality({i \in 1..n : results[i].isAnomaly})
             confidence ==
                 IF normalizedScore = NaN THEN NaN
                 ELSE IF isAnomaly THEN (agree * normalizedScore) \div n
                 ELSE ((n - agree) * (Scale - normalizedScore)) \div n
         IN  [isAnomaly  |-> isAnomaly,
              confidence |-> confidence,
              severity   |-> determineSeverity(normalizedScore, confidence),
              score      |-> normalizedScore,
              algorithms |->
                  [i \in 1..n |->
                     [results[i] EXCEPT !.contribution =
                        FRatio(FMul(results[i].score, weights[i]),
                               FMul(totalWeight, Scale))]]]

(* ensembleVote with the confidence taken from the score alone, without    *)
(* the agreement of the detectors                                          *)
ensembleVoteScoreOnly(results) ==
    IF Len(results) = 0
    THEN [isAnomaly |-> FALSE, confidence |-> 0, severity |-> "info",
          score |-> 0, algorithms |-> <<>>]
    ELSE LET n == Len(results)
             weights == calculateAlgorithmWeights(results)
             weightedScore ==
                 FSum([i \in 1..n |-> FMul(results[i].score, weights[i])])
             totalWeight == FSum(weights)
             normalizedScore == FDiv(weightedScore, totalWeight)
             threshold == getThreshold
             isAnomaly == FGt(normalizedScore, threshold)
             agree == Cardinality({i \in 1..n : results[i].isAnomaly})
             confidence ==
                 IF normalizedScore = NaN THEN NaN
                 ELSE IF isAnomaly THEN normalizedScore
                 ELSE Scale - normalizedScore
         IN  [isAnomaly  |-> isAnomaly,
              confidence |-> confidence,
              severity   |-> determineSeverity(normalizedScore, confidence),
              score      |-> normalizedScore,
              algorithms |->
                  [i \in 1..n |->
                     [results[i] EXCEPT !.contribution =
                        FRatio(FMul(results[i].score, weights[i]), weightedScore)]]]

(* weightedScore is in units of 1/Scale^2, totalWeight and normalizedScore *)
(* in units of 1/Scale                                                     *)
ensembleVote(results) ==
    IF Len(results) = 0
    THEN [isAnomaly |-> FALSE, confidence |-> 0, severity |-> "info",
          score |-> 0, algorithms |-> <<>>]
    ELSE LET n == Len(results)
             weights == calculateAlgorithmWeights(results)
             weightedScore ==
                 FSum([i \in 1..n |-> FMul(results[i].score, weights[i])])
             totalWeight == FSum(weights)
             normalizedScore == FDiv(weightedScore, totalWeight)
             threshold == getThreshold
             isAnomaly == FGt(normalizedScore, threshold)
             agree == Cardinality({i \in 1..n : results[i].isAnomaly})
             confidence ==
                 IF normalizedScore = NaN THEN NaN
                 ELSE IF isAnomaly THEN (agree * normalizedScore) \div n
                 ELSE ((n - agree) * (Scale - normalizedScore)) \div n
         IN  [isAnomaly  |-> isAnomaly,
              confidence |-> confidence,
              severity   |-> determineSeverity(normalizedScore, confidence),
              score      |-> normalizedScore,
              algorithms |->
                  [i \in 1..n |->
                     [results[i] EXCEPT !.contribution =
                        FRatio(FMul(results[i].score, weights[i]), weightedScore)]]]

(* generateExplanation with the sample standard deviation (divisor n - 1)   *)
generateExplanationSample(value, data, result) ==
    LET n      == Len(data)
        sum    == SumSeq(data)
        mean   == ScaledDiv(sum, n)
        stdDev == IF n = 1 THEN 0
                  ELSE ISqrt(ScaledDiv2(SumSq(data), n * n * (n - 1)))
        deviation == IF SumSq(data) > 0
                     THEN (IF value = NaN THEN NaN
                           ELSE SqrtRatio((n - 1) * ZNum(value, data),
                                          n * ZDen(data), 3))
                     ELSE 0
        sorted == SortAsc(data)
    IN  [reason |-> IF ~result.isAnomaly THEN "within normal range"
                    ELSE IF value # NaN /\ n * value > sum THEN "above the mean"
                    ELSE "below the mean",
         expectedRange     |-> <<mean - 2 * stdDev, mean + 2 * stdDev>>,
         actualValue       |-> value,
         historicalContext |-> <<n, mean, stdDev, sorted[1], sorted[n]>>,
         deviation         |-> deviation]

(* generateExplanation, for data of length >= 1.  reason is the template    *)
(* chosen; historicalContext is the tuple of the numbers it prints.         *)
generateExplanation(value, data, result) ==
    LET n      == Len(data)
        sum    == SumSeq(data)
        mean   == ScaledDiv(sum, n)
        stdDev == ISqrt(ScaledDiv2(SumSq(data), n * n * n))
        deviation == IF SumSq(data) > 0
                     THEN (IF value = NaN THEN NaN ELSE ZFixed(value, data))
                     ELSE 0
        sorted == SortAsc(data)
    IN  [reason |-> IF ~result.isAnomaly THEN "within normal range"
                    ELSE IF value # NaN /\ n * value > sum THEN "above the mean"
                    ELSE "below the mean",
         expectedRange     |-> <<mean - 2 * stdDev, mean + 2 * stdDev>>,
         actualValue       |-> value,
         historicalContext |-> <<n, mean, stdDev, sorted[1], sorted[n]>>,
         deviation         |-> deviation]

createNonAnomalyResult(value, reason) ==
    [isAnomaly  |-> FALSE,
     confidence |-> 0,
     severity   |-> "info",
     score      |-> 0,
     algorithms |-> <<>>,
     explanation |-> [reason |-> reason,
                      expectedRange |-> <<0, 0>>,
                      actualValue |-> value,
                      historicalContext |-> reason,
                      deviation |-> 0],
     metadata |-> [dataPointsAnalyzed |-> 0, algorithm |-> "none"]]

(* algorithmResults with the ML detectors run before the statistical ones *)
algorithmResultsMLFirst(value, values, totalDepth) ==
    (IF shouldRunAlgorithm("isolation-forest")
     THEN <<runIsolationForest(value, values, totalDepth)>> ELSE <<>>)
    \o (IF shouldRunAlgorithm("lof") THEN <<runLOF(value, values)>> ELSE <<>>)
    \o (IF shouldRunAlgorithm("zscore") THEN <<runZScore(value, values)>> ELSE <<>>)
    \o (IF shouldRunAlgorithm("mad") THEN <<runMAD(value, values)>> ELSE <<>>)
    \o (IF shouldRunAlgorithm("iqr") THEN <<runIQR(value, values)>> ELSE <<>>)

(* The algorithmResults list detect() builds *)
algorithmResults(value, values, totalDepth) ==
    (IF shouldRunAlgorithm("zscore") THEN <<runZScore(value, values)>> ELSE <<>>)
    \o (IF shouldRunAlgorithm("mad") THEN <<runMAD(value, values)>> ELSE <<>>)
    \o (IF shouldRunAlgorithm("iqr") THEN <<runIQR(value, values)>> ELSE <<>>)
    \o (IF shouldRunAlgorithm("isolation-forest")
        THEN <<runIsolationForest(value, values, totalDepth)>> ELSE <<>>)
    \o (IF shouldRunAlgorithm("lof") THEN <<runLOF(value, values)>> ELSE <<>>)

(* What detect() returns, from the list of the detectors' entries *)
resultOf(value, values, results) ==
    LET ensembleResult == ensembleVote(results)
    IN  [isAnomaly  |-> ensembleResult.isAnomaly,
         confidence |-> ensembleResult.confidence,
         severity   |-> ensembleResult.severity,
         score      |-> ensembleResult.score,
         algorithms |-> ensembleResult.algorithms,
         explanation |-> generateExplanation(value, values, ensembleResult),
         metadata |-> [dataPointsAnalyzed |-> Len(values), algorithm |-> "ensemble"]]

(* What detect() returns once the detectors have run *)
detectResult(value, values, totalDepth) ==
    resultOf(value, values, algorithmResults(value, values, totalDepth))

(* The validation with an off-by-one comparison *)
insufficientDataOffByOne == Len(historicalData) + 1 < config.minDataPoints

(* detect()'s validation: too few historical points *)
insufficientData == Len(historicalData) < config.minDataPoints

(* detect(dataPoint, historicalData), from startSpan to its return or throw. *)
(* With no historical value, generateExplanation reads sorted[0] of an empty *)
(* array and calls toFixed on undefined: a TypeError, caught, the span       *)
(* ended, and rethrown, before any metric is recorded.                       *)
Detect(value) ==
    /\ calls' = calls + 1
    /\ prior' = call
    /\ IF insufficientData
       THEN /\ call' = [value  |-> value,
                        status |-> "returned",
                        result |-> createNonAnomalyResult(value, "Insufficient historical data")]
            /\ activeSpans' = activeSpans + 1
            /\ UNCHANGED metricKeys
       ELSE IF Len(historicalData) = 0
       THEN /\ call' = [value  |-> value,
                        status |-> "thrown",
                        result |-> [error |-> "TypeError"]]
            /\ UNCHANGED <<activeSpans, metricKeys>>
       ELSE \E totalDepth \in
                 (IF shouldRunAlgorithm("isolation-forest")
                  THEN totalDepths(value, historicalData, NumTrees)
                  ELSE {0}) :
              LET result == detectResult(value, historicalData, totalDepth)
              IN  /\ call' = [value |-> value, status |-> "returned", result |-> result]
                  /\ metricKeys' = metricKeys
                        \cup {"anomaly.detection.duration", "anomaly.detection.total"}
                        \cup (IF result.isAnomaly
                              THEN {"anomaly.detection.anomalies"} ELSE {})
                  /\ UNCHANGED activeSpans
    /\ UNCHANGED <<config, performance, historicalData, tasks>>
    /\ UNCHANGED resilienceVars
    /\ UNCHANGED platformVars

----------------------------------------------------------------------------
(* The resilience layer, not exercised *)

ResilienceUnused ==
    /\ now = 0
    /\ breaker = <<>>
    /\ limiter = <<>>
    /\ bulkhead = <<>>

(* The other libraries are not used *)
PlatformUnused ==
    /\ coalescer = <<>>
    /\ audit = <<>>
    /\ abac = <<>>
    /\ events = <<>>
    /\ cache = <<>>
    /\ usage = <<>>
    /\ forest = <<>>

----------------------------------------------------------------------------
(* The inputs *)

Values == 0..MaxVal

(* dataPoint.value: inside the range of the history, just outside it, far   *)
(* below it, far above it, and NaN                                          *)
Candidates == ((0 - 1)..(MaxVal + 2)) \cup {0 - (MaxVal + 1), NaN}

(* Historical series: a pattern of up to MaxPat values, repeated to length n *)
Patterns == UNION {[1..k -> Values] : k \in 1..MaxPat}

Cyc(p, n) == [i \in 1..n |-> p[((i - 1) % Len(p)) + 1]]

Histories == {Cyc(p, n) : p \in Patterns, n \in 0..MaxLen}

AlgorithmLists ==
    { <<"ensemble">>, <<"zscore">>, <<"mad">>, <<"iqr">>,
      <<"isolation-forest">>, <<"lof">>, <<"lof", "zscore">>,
      <<"gesd">>, <<"unknown">>, <<>> }

Sensitivities == {"low", "medium", "high", "adaptive"}

Weightings == {"performance", "confidence", "adaptive"}

(* The constructor's defaults (contextWindow, seasonalityPeriods and        *)
(* adaptiveLearning are read nowhere in the class and are left out)         *)
DefaultConfig ==
    [algorithms        |-> <<"ensemble">>,
     sensitivity       |-> "medium",
     ensembleWeighting |-> "adaptive",
     minDataPoints     |-> 30]

(* The configurations constructed: with minDataPoints 0, every algorithm    *)
(* list under every sensitivity, and the lists that run several detectors   *)
(* under every weighting as well; and the defaults, with minDataPoints 30   *)
(* or 4                                                                     *)
Configs ==
    [algorithms        : AlgorithmLists,
     sensitivity       : Sensitivities,
     ensembleWeighting : {DefaultConfig.ensembleWeighting},
     minDataPoints     : {0}]
    \cup
    [algorithms        : {<<"ensemble">>, <<"lof", "zscore">>},
     sensitivity       : Sensitivities,
     ensembleWeighting : Weightings,
     minDataPoints     : {0}]
    \cup
    {DefaultConfig, [DefaultConfig EXCEPT !.minDataPoints = 4]}

(* No detect() call made yet *)
NoCall == [value |-> 0, status |-> "idle", result |-> [error |-> "none"]]

(* The detector just constructed, its tracer and metrics empty *)
DetectorNew ==
    /\ performance = <<>>
    /\ call = NoCall
    /\ prior = NoCall
    /\ calls = 0
    /\ tasks = <<>>
    /\ activeSpans = 0
    /\ metricKeys = {}

Init ==
    /\ config \in Configs
    /\ historicalData \in Histories
    /\ DetectorNew
    /\ ResilienceUnused
    /\ PlatformUnused

(* One detect() call on one detector and one history per behaviour *)
Next == \E value \in Candidates : calls = 0 /\ Detect(value)

Spec == Init /\ [][Next]_vars

----------------------------------------------------------------------------
(* The scenarios: the default detector on 30-point histories made of one   *)
(* repeated pattern, at their actual magnitudes                            *)

ScenarioPatterns ==
    { <<100>>, <<49, 51, 50, 50, 48, 52>>, <<100, 102, 98, 101, 99>> }

ScenarioHistories ==
    {Cyc(p, DefaultConfig.minDataPoints) : p \in ScenarioPatterns}

ScenarioCandidates == (0..200) \cup {1000}

InitScenario ==
    /\ config = DefaultConfig
    /\ historicalData \in ScenarioHistories
    /\ DetectorNew
    /\ ResilienceUnused
    /\ PlatformUnused

NextScenario == \E value \in ScenarioCandidates : calls = 0 /\ Detect(value)

SpecScenario == InitScenario /\ [][NextScenario]_vars

----------------------------------------------------------------------------
(* Vocabulary of the properties *)

Returned == calls > 0 /\ call.status = "returned"

Thrown == calls > 0 /\ call.status = "thrown"

(* The call got past validation and returned the ensemble's verdict *)
Voted == Returned /\ Len(historicalData) >= config.minDataPoints

FiniteInput == call.value # NaN

ResultNames == [i \in 1..Len(call.result.algorithms) |-> call.result.algorithms[i].name]

HasEntry(name) == \E i \in 1..Len(call.result.algorithms) :
                      call.result.algorithms[i].name = name

EntryNamed(name) ==
    call.result.algorithms[CHOOSE i \in 1..Len(call.result.algorithms) :
                               call.result.algorithms[i].name = name]

----------------------------------------------------------------------------
(* C1: a detect() call whose history is shorter than config.minDataPoints   *)
(* returns (it does not throw) the short-circuit verdict: isAnomaly false,  *)
(* no algorithm entry (no detector ran), dataPointsAnalyzed 0, algorithm    *)
(* "none", reason "Insufficient historical data".                           *)
C1_ShortCircuit ==
    (calls > 0 /\ Len(historicalData) < config.minDataPoints) =>
        /\ call.status = "returned"
        /\ call.result.isAnomaly = FALSE
        /\ call.result.algorithms = <<>>
        /\ call.result.metadata.dataPointsAnalyzed = 0
        /\ call.result.metadata.algorithm = "none"
        /\ call.result.explanation.reason = "Insufficient historical data"

C1_Witness ==
    /\ Returned
    /\ Len(historicalData) > 0
    /\ Len(historicalData) < config.minDataPoints
    /\ call.result.metadata.dataPointsAnalyzed = 0

(* C2: for every numeric value, every history (the empty one included) and  *)
(* every configuration (minDataPoints = 0 included), detect() returns a     *)
(* result and does not raise.                                               *)
C2_NeverRaises ==
    (calls > 0 /\ FiniteInput) => call.status = "returned"

(* C3: when config.algorithms names an algorithm that is neither an         *)
(* implemented detector nor "ensemble", detect() raises instead of          *)
(* returning a verdict (stated for a call with historical data, so that no  *)
(* other failure is involved).                                              *)
C3_UnknownAlgorithmRaises ==
    (/\ calls > 0
     /\ FiniteInput
     /\ Len(historicalData) > 0
     /\ \E name \in Range(config.algorithms) :
            name \notin Range(Implemented) \cup {"ensemble"})
    => call.status = "thrown"

(* C4: whenever the IQR of a history of at least 4 points is zero, the iqr  *)
(* detector reports isAnomaly false and score 0, for every candidate value. *)
C4_IqrZeroNonAnomaly ==
    (/\ Voted
     /\ FiniteInput
     /\ HasEntry("iqr")
     /\ Len(historicalData) >= 4
     /\ percentile4(SortAsc(historicalData), 3)
            = percentile4(SortAsc(historicalData), 1))
    => /\ EntryNamed("iqr").isAnomaly = FALSE
       /\ EntryNamed("iqr").score = 0

(* The median of the absolute deviations from the median, times 4 *)
TrueMad4(data) == median2(SortAsc(madDeviations2(data)))

(* C5: the zScore detector reports isAnomaly false and score 0 whenever the *)
(* population standard deviation of the data is 0, and the mad detector     *)
(* whenever the MAD of the data is 0, for every candidate value.            *)
C5_ZeroDispersionNonAnomaly ==
    (Voted /\ FiniteInput) =>
        /\ (HasEntry("zscore") /\ SumSq(historicalData) = 0) =>
               /\ EntryNamed("zscore").isAnomaly = FALSE
               /\ EntryNamed("zscore").score = 0
        /\ (HasEntry("mad") /\ Len(historicalData) >= 2
                /\ TrueMad4(historicalData) = 0) =>
               /\ EntryNamed("mad").isAnomaly = FALSE
               /\ EntryNamed("mad").score = 0

(* C6: on finite inputs, every algorithm entry's score, the result's score  *)
(* and the result's confidence are in [0, 1].                               *)
C6_ScoresInUnitInterval ==
    (Returned /\ FiniteInput) =>
        /\ \A i \in 1..Len(call.result.algorithms) :
               /\ call.result.algorithms[i].score >= 0
               /\ call.result.algorithms[i].score <= Scale
        /\ call.result.score >= 0
        /\ call.result.score <= Scale
        /\ call.result.confidence >= 0
        /\ call.result.confidence <= Scale

C6_Witness ==
    /\ Voted
    /\ FiniteInput
    /\ Len(call.result.algorithms) = 5
    /\ Len(historicalData) >= 10
    /\ \E i \in 1..5 : call.result.algorithms[i].score = Scale
    /\ \A i \in 4..5 : /\ call.result.algorithms[i].score > 0
                       /\ call.result.algorithms[i].score < Scale
    /\ call.result.score > 0
    /\ call.result.confidence > 0

(* C7: when the candidate value is NaN, every detector that ran reports     *)
(* isAnomaly false with score 0, and the returned score, confidence and     *)
(* contributions hold no NaN.                                               *)
C7_NaNCaught ==
    (Voted /\ call.value = NaN) =>
        /\ \A i \in 1..Len(call.result.algorithms) :
               /\ call.result.algorithms[i].isAnomaly = FALSE
               /\ call.result.algorithms[i].score = 0
        /\ call.result.score # NaN
        /\ call.result.confidence # NaN

(* C8: when at least one detector ran and the sum of score_i * weight_i is  *)
(* positive, contribution_i is score_i * weight_i over that sum, and the    *)
(* contributions sum to 1.                                                  *)
C8_Contributions ==
    (Voted /\ FiniteInput /\ Len(call.result.algorithms) > 0) =>
        LET algs    == call.result.algorithms
            n       == Len(algs)
            weights == calculateAlgorithmWeights(algs)
            total   == SumSeq([i \in 1..n |-> algs[i].score * weights[i]])
        IN  total > 0 =>
              /\ \A i \in 1..n :
                    algs[i].contribution =
                        [num |-> algs[i].score * weights[i], den |-> total]
              /\ SumSeq([i \in 1..n |-> algs[i].contribution.num]) = total

C8_Witness ==
    /\ Voted
    /\ FiniteInput
    /\ Len(call.result.algorithms) >= 2
    /\ config.ensembleWeighting = "confidence"
    /\ \A i \in 1..2 : /\ call.result.algorithms[i].score > 0
                       /\ call.result.algorithms[i].contribution.num > 0
                       /\ call.result.algorithms[i].contribution.num
                              < call.result.algorithms[i].contribution.den

(* The implemented detectors that config.algorithms selects *)
Selected ==
    IF "ensemble" \in Range(config.algorithms)
    THEN Range(Implemented)
    ELSE Range(config.algorithms) \cap Range(Implemented)

IndexIn(seq, x) == CHOOSE i \in 1..Len(seq) : seq[i] = x

(* C10 as stated: the entries of result.algorithms are in the order in      *)
(* which config.algorithms declares the detectors.                          *)
C10_ConfigOrder ==
    (Voted /\ FiniteInput
           /\ "ensemble" \notin Range(config.algorithms)
           /\ Range(config.algorithms) \subseteq Range(Implemented)) =>
        ResultNames = config.algorithms

(* C10 as amended: the entries of result.algorithms are in the fixed order  *)
(* zscore, mad, iqr, isolation-forest, lof, whatever the order of           *)
(* config.algorithms.                                                       *)
C10_FixedOrder ==
    Voted =>
        \A i, j \in 1..Len(call.result.algorithms) :
            i < j => IndexIn(Implemented, ResultNames[i])
                        < IndexIn(Implemented, ResultNames[j])

C10_Witness ==
    /\ Voted
    /\ config.algorithms = <<"lof", "zscore">>
    /\ ResultNames = <<"zscore", "lof">>

----------------------------------------------------------------------------
(* detect() as the event loop runs it: each await ends a step, and another *)
(* call's steps may run before the next one.  A task is one call: pc is    *)
(* the await it stands at, values and results are its local variables,     *)
(* verdict is what it returned or threw, overlap the number of other calls *)
(* that were in flight when it began.                                      *)

IdleTask ==
    [pc |-> "idle", value |-> 0, values |-> <<>>, results |-> <<>>,
     verdict |-> NoCall, overlap |-> 0]

InFlight(t) == tasks[t].pc \notin {"idle", "done"}

(* The step after the detector named pc *)
NextPc(pc) ==
    LET i == CHOOSE j \in 1..Len(Implemented) : Implemented[j] = pc
    IN  IF i < Len(Implemented) THEN Implemented[i + 1] ELSE "vote"

(* The entries run<name>(value, data) can return *)
RunOutcomes(name, value, data) ==
    CASE name = "zscore" -> {runZScore(value, data)}
      [] name = "mad"    -> {runMAD(value, data)}
      [] name = "iqr"    -> {runIQR(value, data)}
      [] name = "isolation-forest" ->
            {runIsolationForest(value, data, totalDepth) :
                totalDepth \in totalDepths(value, data, NumTrees)}
      [] name = "lof"    -> {runLOF(value, data)}

(* The call returns or throws: its verdict becomes the last call's *)
Settle(verdict) ==
    /\ call' = verdict
    /\ prior' = call
    /\ calls' = calls + 1

(* startSpan, the validation, and the copy of the historical values *)
DetectBegin(t, value) ==
    /\ tasks[t].pc = "idle"
    /\ activeSpans' = activeSpans + 1
    /\ LET others == Cardinality({u \in DOMAIN tasks : InFlight(u)})
       IN  IF insufficientData
           THEN LET verdict ==
                        [value  |-> value,
                         status |-> "returned",
                         result |-> createNonAnomalyResult(value, "Insufficient historical data")]
                IN  /\ tasks' = [tasks EXCEPT ![t] =
                                   [@ EXCEPT !.pc = "done", !.value = value,
                                             !.verdict = verdict, !.overlap = others]]
                    /\ Settle(verdict)
           ELSE /\ tasks' = [tasks EXCEPT ![t] =
                               [@ EXCEPT !.pc = Implemented[1], !.value = value,
                                         !.values = historicalData,
                                         !.overlap = others]]
                /\ UNCHANGED <<call, prior, calls>>
    /\ UNCHANGED <<config, performance, historicalData, metricKeys>>
    /\ UNCHANGED resilienceVars
    /\ UNCHANGED platformVars

(* DetectRun with the entries kept in one list shared by the calls in flight *)
DetectRunShared(t) ==
    /\ tasks[t].pc \in Range(Implemented)
    /\ IF shouldRunAlgorithm(tasks[t].pc)
       THEN \E entry \in RunOutcomes(tasks[t].pc, tasks[t].value, tasks[t].values) :
              tasks' = [u \in DOMAIN tasks |->
                          IF u = t
                          THEN [tasks[u] EXCEPT !.results = Append(@, entry),
                                                !.pc = NextPc(@)]
                          ELSE IF InFlight(u)
                          THEN [tasks[u] EXCEPT !.results = Append(@, entry)]
                          ELSE tasks[u]]
       ELSE tasks' = [tasks EXCEPT ![t].pc = NextPc(@)]
    /\ UNCHANGED <<config, performance, historicalData, call, prior, calls,
                   activeSpans, metricKeys>>
    /\ UNCHANGED resilienceVars
    /\ UNCHANGED platformVars

(* One "if (shouldRunAlgorithm(name)) { push(await run<name>(...)) }" *)
DetectRun(t) ==
    /\ tasks[t].pc \in Range(Implemented)
    /\ IF shouldRunAlgorithm(tasks[t].pc)
       THEN \E entry \in RunOutcomes(tasks[t].pc, tasks[t].value, tasks[t].values) :
              tasks' = [tasks EXCEPT ![t].results = Append(@, entry),
                                     ![t].pc = NextPc(@)]
       ELSE tasks' = [tasks EXCEPT ![t].pc = NextPc(@)]
    /\ UNCHANGED <<config, performance, historicalData, call, prior, calls,
                   activeSpans, metricKeys>>
    /\ UNCHANGED resilienceVars
    /\ UNCHANGED platformVars

(* ensembleVote and generateExplanation, then the duration histogram; with *)
(* no historical value generateExplanation throws, the span is ended and   *)
(* the error rethrown                                                      *)
DetectVote(t) ==
    /\ tasks[t].pc = "vote"
    /\ IF Len(tasks[t].values) = 0
       THEN LET verdict == [value  |-> tasks[t].value,
                            status |-> "thrown",
                            result |-> [error |-> "TypeError"]]
            IN  /\ tasks' = [tasks EXCEPT ![t].pc = "done", ![t].verdict = verdict]
                /\ activeSpans' = activeSpans - 1
                /\ Settle(verdict)
                /\ UNCHANGED metricKeys
       ELSE /\ tasks' = [tasks EXCEPT
                           ![t].pc = "total",
                           ![t].verdict =
                               [value  |-> tasks[t].value,
                                status |-> "returned",
                                result |-> resultOf(tasks[t].value, tasks[t].values,
                                                    tasks[t].results)]]
            /\ metricKeys' = metricKeys \cup {"anomaly.detection.duration"}
            /\ UNCHANGED <<call, prior, calls, activeSpans>>
    /\ UNCHANGED <<config, performance, historicalData>>
    /\ UNCHANGED resilienceVars
    /\ UNCHANGED platformVars

(* increment('anomaly.detection.total') *)
DetectTotal(t) ==
    /\ tasks[t].pc = "total"
    /\ tasks' = [tasks EXCEPT ![t].pc = "anomalies"]
    /\ metricKeys' = metricKeys \cup {"anomaly.detection.total"}
    /\ UNCHANGED <<config, performance, historicalData, call, prior, calls, activeSpans>>
    /\ UNCHANGED resilienceVars
    /\ UNCHANGED platformVars

(* if (ensembleResult.isAnomaly) increment('anomaly.detection.anomalies') *)
DetectAnomalies(t) ==
    /\ tasks[t].pc = "anomalies"
    /\ tasks' = [tasks EXCEPT ![t].pc = "end"]
    /\ metricKeys' = metricKeys \cup
            (IF tasks[t].verdict.result.isAnomaly
             THEN {"anomaly.detection.anomalies"} ELSE {})
    /\ UNCHANGED <<config, performance, historicalData, call, prior, calls, activeSpans>>
    /\ UNCHANGED resilienceVars
    /\ UNCHANGED platformVars

(* endSpan and the return *)
DetectEnd(t) ==
    /\ tasks[t].pc = "end"
    /\ tasks' = [tasks EXCEPT ![t].pc = "done"]
    /\ activeSpans' = activeSpans - 1
    /\ Settle(tasks[t].verdict)
    /\ UNCHANGED <<config, performance, historicalData, metricKeys>>
    /\ UNCHANGED resilienceVars
    /\ UNCHANGED platformVars

ConcurrentHistories ==
    {Cyc(p, MaxLen) : p \in [1..2 -> {0, MaxVal}]} \cup {<<>>}

ConcurrentCandidates == {1, MaxVal + 2}

ConcurrentConfigs ==
    { [DefaultConfig EXCEPT !.minDataPoints = 0, !.ensembleWeighting = "confidence"],
      [DefaultConfig EXCEPT !.minDataPoints = 0, !.algorithms = <<"lof", "zscore">>],
      DefaultConfig }

(* Two detect() calls can be in flight *)
InitConcurrent ==
    /\ config \in ConcurrentConfigs
    /\ historicalData \in ConcurrentHistories
    /\ performance = <<>>
    /\ call = NoCall
    /\ prior = NoCall
    /\ calls = 0
    /\ tasks = [t \in 1..2 |-> IdleTask]
    /\ activeSpans = 0
    /\ metricKeys = {}
    /\ ResilienceUnused
    /\ PlatformUnused

NextConcurrent ==
    \E t \in DOMAIN tasks :
        \/ \E value \in ConcurrentCandidates : DetectBegin(t, value)
        \/ DetectRun(t)
        \/ DetectVote(t)
        \/ DetectTotal(t)
        \/ DetectAnomalies(t)
        \/ DetectEnd(t)

SpecConcurrent == InitConcurrent /\ [][NextConcurrent]_vars

(* What detect(value) can return or throw when it runs alone, from         *)
(* startSpan to its end with no other call's step in between               *)
AloneVerdicts(value) ==
    IF insufficientData
    THEN {[value  |-> value,
           status |-> "returned",
           result |-> createNonAnomalyResult(value, "Insufficient historical data")]}
    ELSE IF Len(historicalData) = 0
    THEN {[value |-> value, status |-> "thrown", result |-> [error |-> "TypeError"]]}
    ELSE {[value  |-> value,
           status |-> "returned",
           result |-> detectResult(value, historicalData, totalDepth)] :
             totalDepth \in (IF shouldRunAlgorithm("isolation-forest")
                             THEN totalDepths(value, historicalData, NumTrees)
                             ELSE {0})}

(* C16: no step of detect() changes the detector's config or performance   *)
(* table or the caller's historical data, and however the steps of         *)
(* concurrent calls interleave, each call ends with a verdict it can end   *)
(* with when it runs alone.                                                *)
C16_NoSharedState ==
    /\ [][UNCHANGED <<config, performance, historicalData>>]_vars
    /\ [](\A t \in DOMAIN tasks :
            tasks[t].pc = "done" => tasks[t].verdict \in AloneVerdicts(tasks[t].value))

(* Both calls ended; the second began while the first was in flight and   *)
(* returned before it, with another value                                  *)
C16_Witness ==
    /\ DOMAIN tasks = 1..2
    /\ \A t \in 1..2 : tasks[t].pc = "done" /\ tasks[t].verdict.status = "returned"
    /\ tasks[2].overlap = 1
    /\ tasks[1].value # tasks[2].value
    /\ prior = tasks[2].verdict
    /\ call = tasks[1].verdict
    /\ Len(call.result.algorithms) = 5
    /\ call.result.score # prior.result.score

----------------------------------------------------------------------------
(* The detector, not exercised *)

DetectorUnused ==
    /\ config = DefaultConfig
    /\ historicalData = <<>>
    /\ DetectorNew

(* Time passes: Date.now() grows by one unit *)
Tick ==
    /\ now < MaxNow
    /\ now' = now + 1
    /\ UNCHANGED <<breaker, limiter, bulkhead, metricKeys>>
    /\ UNCHANGED detectorOnly
    /\ UNCHANGED platformVars

----------------------------------------------------------------------------
(* CircuitBreaker (src/unnamed/part_001, lines 37-114).  The record holds   *)
(* the fields of the class, and about the calls made through it: inflight,  *)
(* for each fn() awaited whether its call has a fallback; made, the number  *)
(* of call()s begun; last, what the last step that ended or rejected a call *)
(* did; streak, the failures since the last success; openedAt, when the     *)
(* state last became open.                                                  *)

BreakerConfigs ==
    [failureThreshold : 1..MaxLimit,
     successThreshold : 1..MaxLimit,
     timeout          : {1, MaxLimit}]

NewBreaker(c) ==
    [config      |-> c,
     state       |-> "closed",
     failures    |-> 0,
     successes   |-> 0,
     nextAttempt |-> 0,
     inflight    |-> <<>>,
     made        |-> 0,
     last        |-> [event |-> "none", outcome |-> "none"],
     streak      |-> 0,
     openedAt    |-> 0]

(* s without its i-th element *)
Without(s, i) == SubSeq(s, 1, i - 1) \o SubSeq(s, i + 1, Len(s))

(* call(fn, fallback) up to its first await: either the rejection (the      *)
(* fallback's result or the error), or fn() invoked and awaited             *)
BreakerCall(fallback) ==
    /\ breaker.made < MaxRequests
    /\ IF breaker.state = "open" /\ now < breaker.nextAttempt
       THEN /\ breaker' = [breaker EXCEPT
                             !.made = @ + 1,
                             !.last = [event   |-> "rejected",
                                       outcome |-> IF fallback THEN "fallback result"
                                                   ELSE "Circuit breaker is open"]]
            /\ metricKeys' = metricKeys \cup {"circuit_breaker.rejected"}
       ELSE /\ breaker' = [breaker EXCEPT
                             !.made = @ + 1,
                             !.state = IF @ = "open" THEN "half-open" ELSE @,
                             !.successes = IF breaker.state = "open" THEN 0 ELSE @,
                             !.inflight = Append(@, fallback),
                             !.last = [event |-> "invoked", outcome |-> "pending"]]
            /\ UNCHANGED metricKeys
    /\ UNCHANGED <<now, limiter, bulkhead>>
    /\ UNCHANGED detectorOnly
    /\ UNCHANGED platformVars

(* fn() resolves: onSuccess, and the call returns fn's result *)
BreakerSuccess(i) ==
    /\ i \in DOMAIN breaker.inflight
    /\ LET closes == /\ breaker.state = "half-open"
                     /\ breaker.successes + 1 >= breaker.config.successThreshold
       IN  /\ breaker' = [breaker EXCEPT
                            !.failures = 0,
                            !.successes = IF breaker.state = "half-open" THEN @ + 1 ELSE @,
                            !.state = IF closes THEN "closed" ELSE @,
                            !.inflight = Without(@, i),
                            !.last = [event |-> "success", outcome |-> "fn result"],
                            !.streak = 0]
           /\ metricKeys' = metricKeys \cup
                   (IF closes THEN {"circuit_breaker.closed"} ELSE {})
    /\ UNCHANGED <<now, limiter, bulkhead>>
    /\ UNCHANGED detectorOnly
    /\ UNCHANGED platformVars

(* onFailure opening only above the threshold *)
BreakerFailureAbove(i) ==
    /\ i \in DOMAIN breaker.inflight
    /\ LET opens == breaker.failures + 1 > breaker.config.failureThreshold
       IN  /\ breaker' = [breaker EXCEPT
                            !.failures = @ + 1,
                            !.successes = 0,
                            !.state = IF opens THEN "open" ELSE @,
                            !.nextAttempt = IF opens THEN now + breaker.config.timeout ELSE @,
                            !.inflight = Without(@, i),
                            !.last = [event   |-> "failure",
                                      outcome |-> IF breaker.inflight[i]
                                                  THEN "fallback result" ELSE "fn error"],
                            !.streak = @ + 1,
                            !.openedAt = IF opens /\ breaker.state # "open" THEN now ELSE @]
           /\ metricKeys' = metricKeys \cup
                   (IF opens THEN {"circuit_breaker.opened"} ELSE {})
    /\ UNCHANGED <<now, limiter, bulkhead>>
    /\ UNCHANGED detectorOnly
    /\ UNCHANGED platformVars

(* fn() rejects: onFailure, and the call returns the fallback's result or   *)
(* rethrows                                                                 *)
BreakerFailure(i) ==
    /\ i \in DOMAIN breaker.inflight
    /\ LET opens == breaker.failures + 1 >= breaker.config.failureThreshold
       IN  /\ breaker' = [breaker EXCEPT
                            !.failures = @ + 1,
                            !.successes = 0,
                            !.state = IF opens THEN "open" ELSE @,
                            !.nextAttempt = IF opens THEN now + breaker.config.timeout ELSE @,
                            !.inflight = Without(@, i),
                            !.last = [event   |-> "failure",
                                      outcome |-> IF breaker.inflight[i]
                                                  THEN "fallback result" ELSE "fn error"],
                            !.streak = @ + 1,
                            !.openedAt = IF opens /\ breaker.state # "open" THEN now ELSE @]
           /\ metricKeys' = metricKeys \cup
                   (IF opens THEN {"circuit_breaker.opened"} ELSE {})
    /\ UNCHANGED <<now, limiter, bulkhead>>
    /\ UNCHANGED detectorOnly
    /\ UNCHANGED platformVars

InitBreaker ==
    /\ DetectorUnused
    /\ now = 0
    /\ breaker \in {NewBreaker(c) : c \in BreakerConfigs}
    /\ limiter = <<>>
    /\ bulkhead = <<>>
    /\ PlatformUnused

NextBreaker ==
    \/ \E fallback \in BOOLEAN : BreakerCall(fallback)
    \/ \E i \in DOMAIN breaker.inflight : BreakerSuccess(i)
    \/ \E i \in DOMAIN breaker.inflight : BreakerFailure(i)
    \/ Tick

SpecBreaker == InitBreaker /\ [][NextBreaker]_vars

(* C18, first half: when a failure is the failureThreshold-th (or a later   *)
(* one) since the last success, the breaker is open once onFailure has run. *)
C18_Opens ==
    (breaker.last.event = "failure"
        /\ breaker.streak >= breaker.config.failureThreshold)
    => breaker.state = "open"

(* C18, second half: a call() made while the breaker is open and less than  *)
(* timeout has passed since it opened does not invoke fn; it ends at once   *)
(* with the fallback's result or with the error "Circuit breaker is open".  *)
C18_Rejects ==
    (/\ breaker'.made = breaker.made + 1
     /\ breaker.state = "open"
     /\ now < breaker.openedAt + breaker.config.timeout)
    => /\ breaker'.inflight = breaker.inflight
       /\ breaker'.state = "open"
       /\ breaker'.last.event = "rejected"
       /\ \E fallback \in BOOLEAN :
             breaker'.last.outcome = (IF fallback THEN "fallback result"
                                      ELSE "Circuit breaker is open")

(* C18: the breaker opens at the failureThreshold-th failure in a row, and  *)
(* while it is open and the timeout has not elapsed call() never invokes fn *)
C18_CircuitBreaker == [](C18_Opens) /\ [][C18_Rejects]_vars

(* A call was rejected with the error while a fn() invoked before the       *)
(* breaker opened is still awaited                                          *)
C18_Witness ==
    /\ breaker.state = "open"
    /\ breaker.streak >= breaker.config.failureThreshold
    /\ breaker.config.failureThreshold > 1
    /\ now < breaker.openedAt + breaker.config.timeout
    /\ breaker.last = [event |-> "rejected", outcome |-> "Circuit breaker is open"]
    /\ Len(breaker.inflight) > 0

(* A call whose fn() was awaited ends in this step, by success or failure *)
BreakerSettles(event) ==
    /\ Len(breaker'.inflight) = Len(breaker.inflight) - 1
    /\ breaker'.last.event = event

(* C28: in the half-open state the successThreshold-th success closes the   *)
(* circuit, and any failed call, whether or not a success preceded it,      *)
(* opens the circuit again with a fresh timeout.                            *)
C28_HalfOpen ==
    [][breaker.state = "half-open" =>
         /\ (BreakerSettles("success")
               /\ breaker.successes + 1 >= breaker.config.successThreshold)
              => breaker'.state = "closed"
         /\ BreakerSettles("failure")
              => /\ breaker'.state = "open"
                 /\ breaker'.nextAttempt = now + breaker.config.timeout]_vars

----------------------------------------------------------------------------
(* RateLimiter (src/unnamed/part_001, lines 119-240).  redis tells whether  *)
(* the constructor made a Redis client; localCounts is the Map of the       *)
(* class; sortedSets and expireAt are the Redis server's sorted set and TTL *)
(* of each key; pending holds the isAllowedRedis calls awaiting a Redis     *)
(* command; allowedAt holds, per key and in ascending order, the times of   *)
(* the calls answered allowed = true; made counts the isAllowed calls begun *)

Keys == {"key"}

LimiterConfigs == [maxRequests : 1..MaxLimit, windowMs : 1..MaxLimit]

(* seq, which is in ascending order, with x put in its place: a Redis      *)
(* sorted set keeps its members ordered by score                            *)
InsertSorted(seq, x) ==
    LET below == SelectSeq(seq, LAMBDA y : y <= x)
        above == SelectSeq(seq, LAMBDA y : y > x)
    IN  below \o <<x>> \o above

(* A key absent from localCounts: the first test of isAllowedLocal treats   *)
(* it as an entry whose window has expired                                  *)
NoEntry == [count |-> 0, resetAt |-> 0]

NewLimiter(redis, c) ==
    [redis       |-> redis,
     config      |-> c,
     localCounts |-> [k \in Keys |-> NoEntry],
     sortedSets  |-> [k \in Keys |-> <<>>],
     expireAt    |-> [k \in Keys |-> 0],
     pending     |-> <<>>,
     allowedAt   |-> [k \in Keys |-> <<>>],
     made        |-> 0]

(* isAllowedLocal(key, config) at time t: the entry it leaves in            *)
(* localCounts, the result it returns and the metric it records             *)
isAllowedLocal(key, t) ==
    LET entry == limiter.localCounts[key]
        c     == limiter.config
    IN  IF entry = NoEntry \/ t >= entry.resetAt
        THEN [entry  |-> [count |-> 1, resetAt |-> t + c.windowMs],
              result |-> [allowed |-> TRUE, remaining |-> c.maxRequests - 1,
                          resetAt |-> t + c.windowMs],
              metric |-> {}]
        ELSE IF entry.count >= c.maxRequests
        THEN [entry  |-> entry,
              result |-> [allowed |-> FALSE, remaining |-> 0, resetAt |-> entry.resetAt],
              metric |-> {"ratelimit.rejected"}]
        ELSE [entry  |-> [entry EXCEPT !.count = @ + 1],
              result |-> [allowed |-> TRUE,
                          remaining |-> c.maxRequests - (entry.count + 1),
                          resetAt |-> entry.resetAt],
              metric |-> {"ratelimit.allowed"}]

(* The limiter after an isAllowedLocal call made at the current time *)
AfterLocal(lim, key) ==
    LET d == isAllowedLocal(key, now)
    IN  [lim EXCEPT
           !.localCounts[key] = d.entry,
           !.allowedAt[key] = IF d.result.allowed THEN InsertSorted(@, now) ELSE @]

(* isAllowed(key, config) with no Redis client: isAllowedLocal *)
LimiterLocal(key) ==
    /\ ~limiter.redis
    /\ limiter.made < MaxRequests
    /\ limiter' = AfterLocal([limiter EXCEPT !.made = @ + 1], key)
    /\ metricKeys' = metricKeys \cup isAllowedLocal(key, now).metric
    /\ UNCHANGED <<now, breaker, bulkhead>>
    /\ UNCHANGED detectorOnly
    /\ UNCHANGED platformVars

(* isAllowedRedis up to its first await: now and windowStart are taken *)
LimiterRedisBegin(key) ==
    /\ limiter.redis
    /\ limiter.made < MaxRequests
    /\ Len(limiter.pending) < 2
    /\ limiter' = [limiter EXCEPT
                     !.made = @ + 1,
                     !.pending = Append(@, [key |-> key, at |-> now, pc |-> "zremrangebyscore"])]
    /\ UNCHANGED <<now, breaker, bulkhead, metricKeys>>
    /\ UNCHANGED detectorOnly
    /\ UNCHANGED platformVars

(* The Redis command the i-th pending call awaits is executed, and the call *)
(* runs to its next await or to its return                                  *)
LimiterRedisStep(i) ==
    /\ i \in DOMAIN limiter.pending
    /\ LET p   == limiter.pending[i]
           c   == limiter.config
           set == limiter.sortedSets[p.key]
       IN  CASE p.pc = "zremrangebyscore" ->
                  /\ limiter' = [limiter EXCEPT
                         !.sortedSets[p.key] =
                             SelectSeq(set, LAMBDA score : score > p.at - c.windowMs),
                         !.pending[i].pc = "zcard"]
                  /\ UNCHANGED metricKeys
             [] p.pc = "zcard" ->
                  /\ limiter' =
                         IF Len(set) >= c.maxRequests
                         THEN [limiter EXCEPT !.pending = Without(@, i)]
                         ELSE [limiter EXCEPT
                                 !.pending[i].pc = "zadd"]
                  /\ UNCHANGED metricKeys
             [] p.pc = "zadd" ->
                  /\ limiter' = [limiter EXCEPT
                         !.sortedSets[p.key] = InsertSorted(@, p.at),
                         !.pending[i].pc = "expire"]
                  /\ UNCHANGED metricKeys
             [] p.pc = "expire" ->
                  /\ limiter' = [limiter EXCEPT
                         !.expireAt[p.key] = now + c.windowMs,
                         !.pending = Without(@, i),
                         !.allowedAt[p.key] = InsertSorted(@, p.at)]
                  /\ metricKeys' = metricKeys \cup {"ratelimit.allowed"}
    /\ UNCHANGED <<now, breaker, bulkhead>>
    /\ UNCHANGED detectorOnly
    /\ UNCHANGED platformVars

(* The Redis command the i-th pending call awaits fails: the catch answers  *)
(* with isAllowedLocal                                                      *)
LimiterRedisError(i) ==
    /\ i \in DOMAIN limiter.pending
    /\ limiter' = AfterLocal([limiter EXCEPT !.pending = Without(@, i)],
                             limiter.pending[i].key)
    /\ metricKeys' = metricKeys \cup isAllowedLocal(limiter.pending[i].key, now).metric
    /\ UNCHANGED <<now, breaker, bulkhead>>
    /\ UNCHANGED detectorOnly
    /\ UNCHANGED platformVars

(* The Redis server drops a key whose TTL has run out *)
LimiterRedisExpiry(key) ==
    /\ limiter.expireAt[key] > 0
    /\ now >= limiter.expireAt[key]
    /\ limiter' = [limiter EXCEPT !.sortedSets[key] = <<>>, !.expireAt[key] = 0]
    /\ UNCHANGED <<now, breaker, bulkhead, metricKeys>>
    /\ UNCHANGED detectorOnly
    /\ UNCHANGED platformVars

InitLimiter ==
    /\ DetectorUnused
    /\ now = 0
    /\ breaker = <<>>
    /\ limiter \in {NewLimiter(redis, c) : redis \in BOOLEAN, c \in LimiterConfigs}
    /\ bulkhead = <<>>
    /\ PlatformUnused

NextLimiter ==
    \/ \E key \in Keys : LimiterLocal(key)
    \/ \E key \in Keys : LimiterRedisBegin(key)
    \/ \E i \in DOMAIN limiter.pending : LimiterRedisStep(i)
    \/ \E i \in DOMAIN limiter.pending : LimiterRedisError(i)
    \/ \E key \in Keys : LimiterRedisExpiry(key)
    \/ Tick

SpecLimiter == InitLimiter /\ [][NextLimiter]_vars

(* The calls for key answered allowed = true whose time is in [t, t + w) *)
AllowedIn(key, t, w) ==
    Cardinality({i \in DOMAIN limiter.allowedAt[key] :
                    /\ t <= limiter.allowedAt[key][i]
                    /\ limiter.allowedAt[key][i] < t + w})

(* C19: for every key, every interval of length windowMs holds at most      *)
(* maxRequests calls answered allowed = true, with or without Redis.        *)
C19_SlidingWindow ==
    \A key \in Keys : \A t \in 0..MaxNow :
        AllowedIn(key, t, limiter.config.windowMs) <= limiter.config.maxRequests

----------------------------------------------------------------------------
(* Bulkhead (src/unnamed/part_001, lines 245-313).  Requests are numbered   *)
(* in the order execute() is called.  running and queue are the fields of   *)
(* the class (a queued closure is written as its request's number);         *)
(* executing is the set of requests whose fn has been called and has not    *)
(* settled; started is the set of requests whose fn has ever been called;   *)
(* outcome is how each request's promise settled ("none" before the call,   *)
(* "pending" until it settles); made counts the execute() calls.            *)

BulkheadConfigs == [maxConcurrent : 1..MaxLimit, maxQueue : 0..MaxLimit]

NewBulkhead(c) ==
    [config    |-> c,
     running   |-> 0,
     queue     |-> <<>>,
     executing |-> {},
     started   |-> {},
     made      |-> 0,
     outcome   |-> [r \in 1..MaxRequests |-> "none"]]

(* The first test of execute() when it compares running with maxConcurrent  *)
(* inclusively                                                              *)
CanRunInclusive(b) == b.running <= b.config.maxConcurrent

(* The first test of execute(): a slot is free *)
CanRun(b) == b.running < b.config.maxConcurrent

(* run(fn) up to its await: running++ and fn is called *)
BulkheadRun(b, r) ==
    [b EXCEPT !.running = @ + 1,
              !.executing = @ \cup {r},
              !.started = @ \cup {r}]

(* execute(fn) up to its first await or its return of the queued promise *)
BulkheadExecute ==
    /\ bulkhead.made < MaxRequests
    /\ LET r == bulkhead.made + 1
           b == [bulkhead EXCEPT !.made = r, !.outcome[r] = "pending"]
       IN  IF CanRun(bulkhead)
           THEN /\ bulkhead' = BulkheadRun(b, r)
                /\ UNCHANGED metricKeys
           ELSE IF Len(bulkhead.queue) >= bulkhead.config.maxQueue
           THEN /\ bulkhead' = [b EXCEPT !.outcome[r] = "Bulkhead queue full"]
                /\ metricKeys' = metricKeys \cup {"bulkhead.rejected"}
           ELSE /\ bulkhead' = [b EXCEPT !.queue = Append(@, r)]
                /\ UNCHANGED metricKeys
    /\ UNCHANGED <<now, breaker, limiter>>
    /\ UNCHANGED detectorOnly
    /\ UNCHANGED platformVars

(* The fn of request r settles: run() returns or throws through its finally *)
(* block, which frees the slot and starts the closure at the head of the    *)
(* queue; a request whose timer already fired keeps its rejection           *)
BulkheadSettle(r, fulfilled) ==
    /\ r \in bulkhead.executing
    /\ LET b == [bulkhead EXCEPT
                   !.running = @ - 1,
                   !.executing = @ \ {r},
                   !.outcome[r] = IF @ = "pending"
                                  THEN (IF fulfilled THEN "resolved" ELSE "rejected")
                                  ELSE @]
       IN  bulkhead' = IF Len(b.queue) > 0
                       THEN BulkheadRun([b EXCEPT !.queue = Tail(@)], Head(b.queue))
                       ELSE b
    /\ UNCHANGED <<now, breaker, limiter, metricKeys>>
    /\ UNCHANGED detectorOnly
    /\ UNCHANGED platformVars

(* The timer of a queued request fires: its promise is rejected, its        *)
(* closure stays in the queue                                               *)
BulkheadTimeout(r) ==
    /\ \E i \in DOMAIN bulkhead.queue : bulkhead.queue[i] = r
    /\ bulkhead.outcome[r] = "pending"
    /\ bulkhead' = [bulkhead EXCEPT !.outcome[r] = "Bulkhead timeout"]
    /\ UNCHANGED <<now, breaker, limiter, metricKeys>>
    /\ UNCHANGED detectorOnly
    /\ UNCHANGED platformVars

InitBulkhead ==
    /\ DetectorUnused
    /\ now = 0
    /\ breaker = <<>>
    /\ limiter = <<>>
    /\ bulkhead \in {NewBulkhead(c) : c \in BulkheadConfigs}
    /\ PlatformUnused

NextBulkhead ==
    \/ BulkheadExecute
    \/ \E r \in 1..MaxRequests, fulfilled \in BOOLEAN : BulkheadSettle(r, fulfilled)
    \/ \E r \in 1..MaxRequests : BulkheadTimeout(r)

SpecBulkhead == InitBulkhead /\ [][NextBulkhead]_vars

(* Both limits of the bulkhead are reached *)
BulkheadFull ==
    /\ Cardinality(bulkhead.executing) >= bulkhead.config.maxConcurrent
    /\ Len(bulkhead.queue) >= bulkhead.config.maxQueue

(* At most maxConcurrent functions execute, at most maxQueue requests are   *)
(* queued, and no request rejected with 'Bulkhead queue full' has run       *)
C20_Limits ==
    /\ Cardinality(bulkhead.executing) <= bulkhead.config.maxConcurrent
    /\ Len(bulkhead.queue) <= bulkhead.config.maxQueue
    /\ \A r \in 1..MaxRequests :
          bulkhead.outcome[r] = "Bulkhead queue full" => r \notin bulkhead.started

(* A request arriving when both limits are reached is rejected with         *)
(* 'Bulkhead queue full' and changes neither the running functions nor the  *)
(* queue                                                                    *)
C20_Rejects ==
    (BulkheadFull /\ bulkhead'.made = bulkhead.made + 1) =>
        /\ bulkhead'.outcome[bulkhead'.made] = "Bulkhead queue full"
        /\ bulkhead'.started = bulkhead.started
        /\ bulkhead'.executing = bulkhead.executing
        /\ bulkhead'.queue = bulkhead.queue

(* C20: in every reachable state of a Bulkhead the functions executing are  *)
(* at most maxConcurrent and the queued requests at most maxQueue; a        *)
(* request arriving when both limits are reached is rejected with           *)
(* 'Bulkhead queue full' and its fn is not run.                             *)
C20_Bulkhead == [](C20_Limits) /\ [][C20_Rejects]_vars

(* Both limits are reached with a non-empty queue and the last request,    *)
(* which arrived then, has been rejected with 'Bulkhead queue full'         *)
C20_Witness ==
    /\ BulkheadFull
    /\ Len(bulkhead.queue) > 0
    /\ bulkhead.made > 0
    /\ bulkhead.outcome[bulkhead.made] = "Bulkhead queue full"

(* C29: a request whose queue timeout fired has been rejected with          *)
(* 'Bulkhead timeout', holds no queue slot any more, and its fn is never    *)
(* executed.                                                                *)
C29_TimedOut ==
    \A r \in 1..MaxRequests :
        bulkhead.outcome[r] = "Bulkhead timeout" =>
            /\ \A i \in DOMAIN bulkhead.queue : bulkhead.queue[i] # r
            /\ r \notin bulkhead.started

----------------------------------------------------------------------------
(* RequestCoalescer (src/unnamed/part_001, lines 318-337).  pending is the  *)
(* Map of the class, holding for each key the number of the fn invocation   *)
(* whose promise it stores (0: no entry); settled tells how each invocation *)
(* of fn ended ("none": not invoked, "pending": not settled); callers are   *)
(* the coalesce() calls in the order they were made, each with its key, the *)
(* invocation pending for its key when it was made (0: none), whether it    *)
(* invoked fn, its position and what it returned.                           *)

CoalesceKeys == {"key-a", "key-b"}

NewCoalescer ==
    [pending |-> [k \in CoalesceKeys |-> 0],
     settled |-> [i \in 1..MaxRequests |-> "none"],
     callers |-> <<>>]

(* What a caller receives from invocation i: its value or its error; the    *)
(* await of an undefined Map entry gives undefined                          *)
Received(co, i) ==
    IF i = 0 THEN [from |-> 0, outcome |-> "undefined"]
    ELSE [from |-> i, outcome |-> co.settled[i]]

NoResult == [from |-> 0, outcome |-> "none"]

(* The number of fn invocations made so far *)
Invocations(co) == Cardinality({i \in 1..MaxRequests : co.settled[i] # "none"})

(* coalesce(key, fn) up to its first await: with an entry for key the call  *)
(* records the metric and awaits it; otherwise it invokes fn, stores the    *)
(* promise and awaits it                                                    *)
CoalesceCall(key) ==
    /\ Len(coalescer.callers) < MaxRequests
    /\ IF coalescer.pending[key] # 0
       THEN /\ coalescer' = [coalescer EXCEPT
                   !.callers = Append(@, [key |-> key, found |-> coalescer.pending[key],
                                          invoked |-> FALSE, pc |-> "increment",
                                          awaits |-> 0, result |-> NoResult])]
            /\ metricKeys' = metricKeys \cup {"request.coalesced"}
       ELSE /\ LET i == Invocations(coalescer) + 1
               IN  coalescer' = [coalescer EXCEPT
                      !.pending[key] = i,
                      !.settled[i] = "pending",
                      !.callers = Append(@, [key |-> key, found |-> 0,
                                             invoked |-> TRUE, pc |-> "promise",
                                             awaits |-> i, result |-> NoResult])]
            /\ UNCHANGED metricKeys
    /\ UNCHANGED detectorOnly
    /\ UNCHANGED resilienceVars
    /\ UNCHANGED <<audit, abac, events, cache, usage, forest>>

(* The await of observability.increment resumes caller c, which reads       *)
(* this.pending.get(key) and awaits what it finds                           *)
CoalesceResume(c) ==
    /\ c \in DOMAIN coalescer.callers
    /\ coalescer.callers[c].pc = "increment"
    /\ LET i == coalescer.pending[coalescer.callers[c].key]
       IN  coalescer' =
             IF i = 0
             THEN [coalescer EXCEPT !.callers[c].pc = "done",
                                    !.callers[c].result = Received(coalescer, 0)]
             ELSE [coalescer EXCEPT !.callers[c].pc = "promise",
                                    !.callers[c].awaits = i]
    /\ UNCHANGED detectorVars
    /\ UNCHANGED resilienceVars
    /\ UNCHANGED <<audit, abac, events, cache, usage, forest>>

(* The promise of invocation i settles: finally deletes the key, and every  *)
(* caller awaiting the promise receives its value or its error              *)
CoalesceSettle(i, fulfilled) ==
    /\ i \in 1..MaxRequests
    /\ coalescer.settled[i] = "pending"
    /\ LET co == [coalescer EXCEPT !.settled[i] = IF fulfilled THEN "value" ELSE "error"]
       IN  coalescer' = [co EXCEPT
             !.pending = [k \in CoalesceKeys |-> IF @[k] = i THEN 0 ELSE @[k]],
             !.callers = [c \in DOMAIN @ |->
                            IF @[c].pc = "promise" /\ @[c].awaits = i
                            THEN [@[c] EXCEPT !.pc = "done", !.result = Received(co, i)]
                            ELSE @[c]]]
    /\ UNCHANGED detectorVars
    /\ UNCHANGED resilienceVars
    /\ UNCHANGED <<audit, abac, events, cache, usage, forest>>

InitCoalescer ==
    /\ DetectorUnused
    /\ ResilienceUnused
    /\ coalescer = NewCoalescer
    /\ audit = <<>>
    /\ abac = <<>>
    /\ events = <<>>
    /\ cache = <<>>
    /\ usage = <<>>
    /\ forest = <<>>

NextCoalescer ==
    \/ \E key \in CoalesceKeys : CoalesceCall(key)
    \/ \E c \in DOMAIN coalescer.callers : CoalesceResume(c)
    \/ \E i \in 1..MaxRequests, fulfilled \in BOOLEAN : CoalesceSettle(i, fulfilled)

SpecCoalescer == InitCoalescer /\ [][NextCoalescer]_vars

(* C21: a coalesce(key, fn) call made while an earlier call for the key is  *)
(* pending does not invoke fn, and receives the value or the error of the   *)
(* invocation that was pending when it was made, whatever the interleaving. *)
C21_Coalesced ==
    \A c \in DOMAIN coalescer.callers :
        LET caller == coalescer.callers[c]
        IN  caller.found # 0 =>
              /\ ~caller.invoked
              /\ caller.pc = "done" =>
                    /\ caller.result.from = caller.found
                    /\ caller.result.outcome \in {"value", "error"}

----------------------------------------------------------------------------
(* ComplianceAuditSystem (src/unnamed/part_003): logAction (106-161),       *)
(* verifyIntegrity (354-383), calculateHash (541-564).  An entry is its id, *)
(* its action, its previousHash and its hash; the other fields are fixed by *)
(* the caller and take no part in the chain.  chain is auditChain; inflight *)
(* holds the logAction calls at one of their awaits; persisted is the set   *)
(* of ids prisma.auditLog.create stored; made counts the calls begun, at    *)
(* most two of them in flight at a time.                                    *)

(* A 32-bit integer is the pair of its high and low 16-bit halves *)
Half == 65536

(* previousHash of the first entry: previousEntry?.hash is undefined and    *)
(* JSON.stringify leaves the field out                                      *)
Undefined == <<>>

AuditActions == {1, 2}

(* hash = ((hash << 5) - hash + char) & 0xffffffff: 31 * hash + char in     *)
(* 32 bits                                                                  *)
HashStep(h, char) ==
    LET lo == 31 * h[2] + char
    IN  <<(31 * h[1] + lo \div Half) % Half, lo % Half>>

RECURSIVE HashOf(_, _)
HashOf(data, n) ==
    IF n = 0 THEN <<0, 0>> ELSE HashStep(HashOf(data, n - 1), data[n])

(* Math.abs of the signed 32-bit value *)
Abs32(h) ==
    IF h[1] < Half \div 2 THEN h
    ELSE <<(Half - 1 - h[1] + (IF h[2] = 0 THEN 1 ELSE 0)) % Half, (Half - h[2]) % Half>>

(* The characters JSON.stringify gives calculateHash: the id, the action    *)
(* and, when it is defined, previousHash                                    *)
Stringify(entry) == <<entry.id, entry.action>> \o entry.previousHash

calculateHash(entry) ==
    LET data == Stringify(entry) IN Abs32(HashOf(data, Len(data)))

(* verifyIntegrity(): the ids of the entries whose recalculated hash or     *)
(* whose previousHash does not match                                        *)
tamperedEntries(chain) ==
    {chain[i].id : i \in {j \in DOMAIN chain :
        \/ calculateHash(chain[j]) # chain[j].hash
        \/ j > 1 /\ chain[j].previousHash # chain[j - 1].hash}}

verifyIntegrity(chain) ==
    [valid |-> tamperedEntries(chain) = {}, tamperedEntries |-> tamperedEntries(chain)]

NewAudit == [chain |-> <<>>, inflight |-> <<>>, persisted |-> {}, made |-> 0]

(* logAction up to its first await: the entry is built and previousHash is  *)
(* read from the last entry of the chain                                    *)
LogActionBegin(action) ==
    /\ audit.made < MaxRequests
    /\ Len(audit.inflight) < 2
    /\ LET previousHash == IF audit.chain = <<>> THEN Undefined
                           ELSE audit.chain[Len(audit.chain)].hash
       IN  audit' = [audit EXCEPT
             !.made = @ + 1,
             !.inflight = Append(@, [id |-> audit.made + 1, action |-> action,
                                     previousHash |-> previousHash, pc |-> "hash"])]
    /\ UNCHANGED detectorVars
    /\ UNCHANGED resilienceVars
    /\ UNCHANGED <<coalescer, abac, events, cache, usage, forest>>

(* The await of calculateHash resumes call i: the entry gets its hash and   *)
(* is pushed on the chain, and prisma.auditLog.create is called             *)
LogActionPush(i) ==
    /\ i \in DOMAIN audit.inflight
    /\ audit.inflight[i].pc = "hash"
    /\ LET e     == audit.inflight[i]
           entry == [id |-> e.id, action |-> e.action, previousHash |-> e.previousHash]
       IN  audit' = [audit EXCEPT
             !.chain = Append(@, [id |-> e.id, action |-> e.action,
                                  previousHash |-> e.previousHash,
                                  hash |-> calculateHash(entry)]),
             !.inflight[i].pc = "create"]
    /\ UNCHANGED detectorVars
    /\ UNCHANGED resilienceVars
    /\ UNCHANGED <<coalescer, abac, events, cache, usage, forest>>

(* prisma.auditLog.create settles for call i (a failure is caught and       *)
(* logged), the metric is recorded and logAction returns                    *)
LogActionEnd(i, stored) ==
    /\ i \in DOMAIN audit.inflight
    /\ audit.inflight[i].pc = "create"
    /\ audit' = [audit EXCEPT
          !.persisted = IF stored THEN @ \cup {audit.inflight[i].id} ELSE @,
          !.inflight = Without(@, i)]
    /\ metricKeys' = metricKeys \cup {"audit.logged"}
    /\ UNCHANGED detectorOnly
    /\ UNCHANGED resilienceVars
    /\ UNCHANGED <<coalescer, abac, events, cache, usage, forest>>

InitAudit ==
    /\ DetectorUnused
    /\ ResilienceUnused
    /\ coalescer = <<>>
    /\ audit = NewAudit
    /\ abac = <<>>
    /\ events = <<>>
    /\ cache = <<>>
    /\ usage = <<>>
    /\ forest = <<>>

NextAudit ==
    \/ \E action \in AuditActions : LogActionBegin(action)
    \/ \E i \in DOMAIN audit.inflight : LogActionPush(i)
    \/ \E i \in DOMAIN audit.inflight, stored \in BOOLEAN : LogActionEnd(i, stored)

SpecAudit == InitAudit /\ [][NextAudit]_vars

(* C22: once the logAction calls made have returned, concurrent ones        *)
(* included, every entry's previousHash is the hash of the entry before it  *)
(* in the chain and verifyIntegrity() returns valid = true.                 *)
C22_ChainIntact ==
    audit.inflight = <<>> =>
        /\ \A i \in DOMAIN audit.chain :
              i > 1 => audit.chain[i].previousHash = audit.chain[i - 1].hash
        /\ verifyIntegrity(audit.chain).valid

----------------------------------------------------------------------------
(* ABACEngine (src/unnamed/part_002).  A policy attribute value is          *)
(* Wild ('*'), One(v) (a single value) or Array(set); an AttributeSet is a  *)
(* function from attribute names to such values (<<>> for {}).  policies is *)
(* the Map of the class in insertion order; accessLogs is the log of the    *)
(* decisions made; decision is the Decision of the last evaluate() call;    *)
(* edits counts the addPolicy and removePolicy calls made.                  *)

Wild == [kind |-> "wild", of |-> {}]
One(v) == [kind |-> "one", of |-> {v}]
Array(vs) == [kind |-> "array", of |-> vs]

NoCondition == [type |-> "none"]
Comparison(left, operator, right) ==
    [type |-> "comparison", left |-> left, operator |-> operator, right |-> right]

(* registerDefaultPolicies(), in the order of its addPolicy calls *)
DefaultPolicies ==
    << [id |-> "owner-full-access", subject |-> [role |-> One("OWNER")],
        resource |-> [organizationId |-> Wild], action |-> Wild, environment |-> <<>>,
        condition |-> NoCondition, effect |-> "allow", priority |-> 100],
       [id |-> "admin-manage-access", subject |-> [role |-> One("ADMIN")],
        resource |-> [organizationId |-> Wild], action |-> Wild, environment |-> <<>>,
        condition |-> [type |-> "not",
                       conditions |-> <<Comparison(<<"action">>, "==", "delete_organization")>>],
        effect |-> "allow", priority |-> 90],
       [id |-> "member-read-access", subject |-> [role |-> One("MEMBER")],
        resource |-> [organizationId |-> Wild], action |-> One("read"), environment |-> <<>>,
        condition |-> NoCondition, effect |-> "allow", priority |-> 70],
       [id |-> "viewer-read-only", subject |-> [role |-> One("VIEWER")],
        resource |-> [organizationId |-> Wild], action |-> One("read"), environment |-> <<>>,
        condition |-> NoCondition, effect |-> "allow", priority |-> 60],
       [id |-> "deny-sensitive-after-hours",
        subject |-> [role |-> Array({"MEMBER", "ADMIN"})],
        resource |-> [sensitivity |-> One("high")],
        action |-> Array({"delete", "modify"}), environment |-> <<>>,
        condition |-> [type |-> "or",
                       conditions |-> <<Comparison(<<"environment", "hour">>, "<", 9),
                                        Comparison(<<"environment", "hour">>, ">", 17)>>],
        effect |-> "deny", priority |-> 95] >>

(* The policies a caller adds with addPolicy *)
CustomPolicies ==
    { [id |-> id, subject |-> [role |-> role], resource |-> <<>>, action |-> action,
       environment |-> <<>>, condition |-> NoCondition, effect |-> effect,
       priority |-> priority] :
         id \in {"custom-a", "custom-b"},
         role \in {Wild, One("MEMBER")},
         action \in {Wild, One("delete")},
         effect \in {"allow", "deny"},
         priority \in {50, 110} }

(* The access requests evaluated *)
Contexts ==
    { [subject |-> [role |-> role], resource |-> [sensitivity |-> sensitivity],
       action |-> action, environment |-> [hour |-> hour]] :
         role \in {"OWNER", "ADMIN", "MEMBER", "GUEST"},
         sensitivity \in {"high", "low"},
         action \in {"read", "delete", "delete_organization"},
         hour \in {8, 12, 18} }

(* resolveAttributePath(path, context), for the paths of one or two parts   *)
resolveAttributePath(path, context) ==
    IF path[1] \notin DOMAIN context THEN [defined |-> FALSE]
    ELSE IF Len(path) = 1 THEN [defined |-> TRUE, v |-> context[path[1]]]
    ELSE IF path[1] = "action" \/ path[2] \notin DOMAIN context[path[1]]
    THEN [defined |-> FALSE]
    ELSE [defined |-> TRUE, v |-> context[path[1]][path[2]]]

(* evaluateComparison: a comparison with undefined is true only for '!='    *)
evaluateComparison(comparison, context) ==
    LET left == resolveAttributePath(comparison.left, context)
    IN  CASE comparison.operator = "==" -> left.defined /\ left.v = comparison.right
          [] comparison.operator = "!=" -> ~left.defined \/ left.v # comparison.right
          [] comparison.operator = ">"  -> left.defined /\ left.v > comparison.right
          [] comparison.operator = "<"  -> left.defined /\ left.v < comparison.right
          [] comparison.operator = ">=" -> left.defined /\ left.v >= comparison.right
          [] comparison.operator = "<=" -> left.defined /\ left.v <= comparison.right
          [] OTHER -> FALSE

RECURSIVE evaluateCondition(_, _)
evaluateCondition(condition, context) ==
    CASE condition.type = "and" ->
           \A i \in DOMAIN condition.conditions :
               evaluateCondition(condition.conditions[i], context)
      [] condition.type = "or" ->
           \E i \in DOMAIN condition.conditions :
               evaluateCondition(condition.conditions[i], context)
      [] condition.type = "not" ->
           \/ condition.conditions = <<>>
           \/ ~evaluateCondition(condition.conditions[1], context)
      [] condition.type = "comparison" -> evaluateComparison(condition, context)
      [] OTHER -> FALSE

(* attributesMatch(policyAttrs, contextAttrs) *)
attributesMatch(policyAttrs, contextAttrs) ==
    \A key \in DOMAIN policyAttrs :
        \/ policyAttrs[key].kind = "wild"
        \/ /\ key \in DOMAIN contextAttrs
           /\ contextAttrs[key] \in policyAttrs[key].of

(* policyMatches(policy, context): the action is compared with !==, which   *)
(* an array never satisfies                                                 *)
policyMatches(policy, context) ==
    /\ \/ policy.action.kind = "wild"
       \/ policy.action.kind = "one" /\ context.action \in policy.action.of
    /\ attributesMatch(policy.subject, context.subject)
    /\ attributesMatch(policy.resource, context.resource)
    /\ attributesMatch(policy.environment, context.environment)
    /\ policy.condition.type = "none" \/ evaluateCondition(policy.condition, context)

(* policies.sort((a, b) => b.priority - a.priority): a stable sort, the     *)
(* higher priority first                                                    *)
RECURSIVE sortedPolicies(_)
sortedPolicies(policies) ==
    IF policies = <<>> THEN <<>>
    ELSE LET n      == Len(policies)
             rest   == sortedPolicies(SubSeq(policies, 1, n - 1))
             before == SelectSeq(rest, LAMBDA q : q.priority >= policies[n].priority)
             after  == SelectSeq(rest, LAMBDA q : q.priority < policies[n].priority)
         IN  before \o <<policies[n]>> \o after

(* evaluate() returning at the first matching policy of the sorted list,    *)
(* with that policy's effect                                                *)
evaluateFirstMatch(policies, context) ==
    LET sorted  == sortedPolicies(policies)
        matched == SelectSeq(sorted, LAMBDA q : policyMatches(q, context))
    IN  IF matched = <<>>
        THEN [allowed |-> FALSE, reason |-> "No matching policy found - default deny",
              matchedPolicies |-> <<>>]
        ELSE [allowed |-> matched[1].effect = "allow",
              reason |-> IF matched[1].effect = "allow" THEN "Access allowed by"
                         ELSE "Access denied by policy",
              matchedPolicies |-> <<matched[1].id>>]

(* evaluate(context) on the policies held: the loop over the sorted         *)
(* policies returns at the first matching deny; otherwise access is granted *)
(* when a matching policy has effect allow.  matchedPolicies holds ids.     *)
evaluate(policies, context) ==
    LET sorted  == sortedPolicies(policies)
        matched == SelectSeq(sorted, LAMBDA q : policyMatches(q, context))
        denies  == SelectSeq(matched, LAMBDA q : q.effect = "deny")
        allowed == \E i \in DOMAIN matched : matched[i].effect = "allow"
    IN  IF denies # <<>>
        THEN [allowed |-> FALSE, reason |-> "Access denied by policy",
              matchedPolicies |-> <<denies[1].id>>]
        ELSE [allowed |-> allowed,
              reason |-> IF allowed THEN "Access allowed by"
                         ELSE "No matching policy found - default deny",
              matchedPolicies |-> [i \in DOMAIN matched |-> matched[i].id]]

NoDecision == [allowed |-> FALSE, reason |-> "none", matchedPolicies |-> <<>>]

NewABAC ==
    [policies |-> DefaultPolicies, accessLogs |-> <<>>, decision |-> NoDecision,
     edits |-> 0]

(* addPolicy(policy): Map.set keeps the place of an id already present *)
AddPolicy(policy) ==
    /\ abac.edits < MaxLimit
    /\ abac' = [abac EXCEPT
                  !.edits = @ + 1,
                  !.policies =
                     IF \E i \in DOMAIN @ : @[i].id = policy.id
                     THEN [i \in DOMAIN @ |-> IF @[i].id = policy.id THEN policy ELSE @[i]]
                     ELSE Append(@, policy)]
    /\ UNCHANGED detectorVars
    /\ UNCHANGED resilienceVars
    /\ UNCHANGED <<coalescer, audit, events, cache, usage, forest>>

(* removePolicy(policyId) *)
RemovePolicy(policyId) ==
    /\ abac.edits < MaxLimit
    /\ \E i \in DOMAIN abac.policies : abac.policies[i].id = policyId
    /\ abac' = [abac EXCEPT !.edits = @ + 1,
                            !.policies = SelectSeq(@, LAMBDA q : q.id # policyId)]
    /\ UNCHANGED detectorVars
    /\ UNCHANGED resilienceVars
    /\ UNCHANGED <<coalescer, audit, events, cache, usage, forest>>

(* evaluate(context), with logAccess; the metrics are recorded when the     *)
(* loop did not return at a deny                                            *)
Evaluate(context) ==
    /\ abac.accessLogs = <<>>
    /\ LET decision == evaluate(abac.policies, context)
       IN  /\ abac' = [abac EXCEPT
                  !.decision = decision,
                  !.accessLogs = Append(@, [action |-> context.action,
                                            decision |-> IF decision.allowed THEN "allow"
                                                         ELSE "deny",
                                            policies |-> decision.matchedPolicies,
                                            context |-> context])]
           /\ metricKeys' = IF decision.reason = "Access denied by policy"
                            THEN metricKeys
                            ELSE metricKeys \cup {"abac.evaluation.duration", "abac.decisions"}
    /\ UNCHANGED detectorOnly
    /\ UNCHANGED resilienceVars
    /\ UNCHANGED <<coalescer, audit, events, cache, usage, forest>>

InitABAC ==
    /\ DetectorUnused
    /\ ResilienceUnused
    /\ coalescer = <<>>
    /\ audit = <<>>
    /\ abac = NewABAC
    /\ events = <<>>
    /\ cache = <<>>
    /\ usage = <<>>
    /\ forest = <<>>

NextABAC ==
    \/ \E policy \in CustomPolicies : AddPolicy(policy)
    \/ \E i \in DOMAIN abac.policies : RemovePolicy(abac.policies[i].id)
    \/ \E context \in Contexts : Evaluate(context)

SpecABAC == InitABAC /\ [][NextABAC]_vars

(* The policies held that match the context, as a set *)
Matching(context) ==
    {abac.policies[i] : i \in {j \in DOMAIN abac.policies :
                                  policyMatches(abac.policies[j], context)}}

(* An evaluate(context) call returns in this step *)
Evaluated(context) ==
    /\ Len(abac'.accessLogs) = Len(abac.accessLogs) + 1
    /\ abac'.accessLogs[Len(abac'.accessLogs)].context = context

(* C23: evaluate() returns allowed = false whenever a matching policy has   *)
(* effect deny, whatever the priorities of the matching allow policies;     *)
(* allowed = true only if an allow policy matches and no deny policy does;  *)
(* allowed = false when no policy matches.                                  *)
C23_DenyOverrides ==
    [][\A context \in Contexts : Evaluated(context) =>
          /\ (\E q \in Matching(context) : q.effect = "deny") => ~abac'.decision.allowed
          /\ abac'.decision.allowed =>
                /\ \E q \in Matching(context) : q.effect = "allow"
                /\ \A q \in Matching(context) : q.effect # "deny"
          /\ Matching(context) = {} => ~abac'.decision.allowed]_vars

(* A request has been denied although an allow policy of higher priority    *)
(* than the matching deny policy matches it                                 *)
C23_Witness ==
    /\ abac.accessLogs # <<>>
    /\ ~abac.decision.allowed
    /\ LET context == abac.accessLogs[1].context
       IN  \E q \in Matching(context), r \in Matching(context) :
             /\ q.effect = "deny"
             /\ r.effect = "allow"
             /\ r.priority > q.priority

----------------------------------------------------------------------------
(* EventStreamProcessor (src/src/lib/events/stream-processor.ts): publish   *)
(* (139-154), subscribe (159-166), processEvent (171-191), retryDeadLetters *)
(* (546-553).  Events are of one type and are numbered as they are          *)
(* published; handlers is the number of handlers subscribed to the type;    *)
(* deadLetterQueue is the field of the class; retrying is the copy of the   *)
(* queue a retryDeadLetters() call is working through; succeeded and failed *)
(* count, per event and handler, the handler's completions and throws;      *)
(* unasked holds the event/handler pairs a retry ran although the handler   *)
(* had not failed for the event; processed counts the processEvent calls.   *)

EventIds == 1..MaxLimit

HandlerIds == 1..2

NewProcessor ==
    [handlers        |-> 0,
     published       |-> 0,
     deadLetterQueue |-> <<>>,
     retrying        |-> <<>>,
     succeeded       |-> [e \in EventIds |-> [h \in HandlerIds |-> 0]],
     failed          |-> [e \in EventIds |-> [h \in HandlerIds |-> 0]],
     unasked         |-> {},
     processed       |-> 0]

(* n copies of event e: processEvent pushes the event once per failed       *)
(* handler                                                                  *)
Copies(e, n) == [i \in 1..n |-> e]

(* processEvent(event): every handler of the type runs in turn; throws[h]   *)
(* tells whether handler h throws; retry tells whether retryDeadLetters     *)
(* made the call                                                            *)
processEvent(ev, e, throws, retry) ==
    LET ran    == 1..ev.handlers
        thrown == {h \in ran : throws[h]}
    IN  [ev EXCEPT
           !.processed = @ + 1,
           !.succeeded[e] = [h \in HandlerIds |->
                               IF h \in ran \ thrown THEN @[h] + 1 ELSE @[h]],
           !.failed[e] = [h \in HandlerIds |->
                            IF h \in thrown THEN @[h] + 1 ELSE @[h]],
           !.unasked = IF retry
                       THEN @ \cup {<<e, h>> : h \in {g \in ran : ev.failed[e][g] = 0}}
                       ELSE @,
           !.deadLetterQueue = @ \o Copies(e, Cardinality(thrown))]

(* subscribe(eventType, handler) *)
Subscribe ==
    /\ events.handlers < 2
    /\ events' = [events EXCEPT !.handlers = @ + 1]
    /\ UNCHANGED detectorVars
    /\ UNCHANGED resilienceVars
    /\ UNCHANGED <<coalescer, audit, abac, cache, usage, forest>>

(* publish(event): the event is stored and processed *)
Publish(throws) ==
    /\ events.published < MaxLimit
    /\ events.processed < MaxRequests
    /\ LET e == events.published + 1
       IN  events' = processEvent([events EXCEPT !.published = e], e, throws, FALSE)
    /\ metricKeys' = metricKeys \cup {"events.stored", "events.published"}
                        \cup (IF \E h \in 1..events.handlers : throws[h]
                              THEN {"events.failed"} ELSE {})
    /\ UNCHANGED detectorOnly
    /\ UNCHANGED resilienceVars
    /\ UNCHANGED <<coalescer, audit, abac, cache, usage, forest>>

(* retryDeadLetters() up to its first await: the queue is copied and        *)
(* emptied                                                                  *)
RetryDeadLetters ==
    /\ events.retrying = <<>>
    /\ events.deadLetterQueue # <<>>
    /\ events.processed < MaxRequests
    /\ events' = [events EXCEPT !.retrying = events.deadLetterQueue,
                                !.deadLetterQueue = <<>>]
    /\ UNCHANGED detectorVars
    /\ UNCHANGED resilienceVars
    /\ UNCHANGED <<coalescer, audit, abac, cache, usage, forest>>

(* One turn of the loop of retryDeadLetters(): processEvent on the next     *)
(* event of the copy                                                        *)
RetryNext(throws) ==
    /\ events.retrying # <<>>
    /\ events' = processEvent([events EXCEPT !.retrying = Tail(@)],
                              Head(events.retrying), throws, TRUE)
    /\ metricKeys' = metricKeys \cup (IF \E h \in 1..events.handlers : throws[h]
                                      THEN {"events.failed"} ELSE {})
    /\ UNCHANGED detectorOnly
    /\ UNCHANGED resilienceVars
    /\ UNCHANGED <<coalescer, audit, abac, cache, usage, forest>>

InitEvents ==
    /\ DetectorUnused
    /\ ResilienceUnused
    /\ coalescer = <<>>
    /\ audit = <<>>
    /\ abac = <<>>
    /\ events = NewProcessor
    /\ cache = <<>>
    /\ usage = <<>>
    /\ forest = <<>>

NextEvents ==
    \/ Subscribe
    \/ \E throws \in [HandlerIds -> BOOLEAN] : Publish(throws)
    \/ RetryDeadLetters
    \/ \E throws \in [HandlerIds -> BOOLEAN] : RetryNext(throws)

SpecEvents == InitEvents /\ [][NextEvents]_vars

(* C24: for every published event and every subscribed handler, the         *)
(* handler completes successfully at most once across publish and any       *)
(* number of retryDeadLetters() calls, and a retry runs only the handlers   *)
(* that failed for the event.                                               *)
C24_ExactlyOnce ==
    /\ \A e \in EventIds, h \in HandlerIds : events.succeeded[e][h] <= 1
    /\ events.unasked = {}

----------------------------------------------------------------------------
(* LRUCache (src/src/lib/cache/intelligent-cache.ts, lines 33-81).  entries *)
(* is the Map of the class in its iteration order, each entry with its key  *)
(* and its expiry (Date.now() and ttl are in seconds); used gives, per key, *)
(* the number of the last get or set that touched the key (0: none); ops    *)
(* counts the get and set calls; last describes the last set call: its key, *)
(* whether the key was present, the size before it, the keys it evicted and *)
(* the keys that were least recently used before it.                        *)

CacheKeys == {"a", "b", "c"}

NoSet == [key |-> "", present |-> FALSE, size |-> 0, evicted |-> {}, oldest |-> {}]

NewCache(maxSize) ==
    [maxSize |-> maxSize, entries |-> <<>>, used |-> [k \in CacheKeys |-> 0],
     ops |-> 0, last |-> NoSet]

(* The keys the Map holds *)
KeysOf(entries) == {entries[i].key : i \in DOMAIN entries}

(* Map.delete(key) *)
MapDelete(entries, key) == SelectSeq(entries, LAMBDA e : e.key # key)

(* Map.set(key, item): an existing key keeps its place in the order *)
MapSet(entries, item) ==
    IF item.key \in KeysOf(entries)
    THEN [i \in DOMAIN entries |-> IF entries[i].key = item.key THEN item ELSE entries[i]]
    ELSE Append(entries, item)

(* get(key): a missing or expired key gives null; a hit moves the entry to  *)
(* the end of the Map                                                       *)
CacheGet(key) ==
    /\ cache.ops < MaxRequests
    /\ LET found == SelectSeq(cache.entries, LAMBDA e : e.key = key)
       IN  cache' =
             IF found = <<>> THEN [cache EXCEPT !.ops = @ + 1, !.last = NoSet]
             ELSE IF now > found[1].expiry
             THEN [cache EXCEPT !.ops = @ + 1, !.last = NoSet,
                                !.entries = MapDelete(@, key)]
             ELSE [cache EXCEPT !.ops = @ + 1, !.last = NoSet,
                                !.entries = MapSet(MapDelete(@, key), found[1]),
                                !.used[key] = cache.ops + 1]
    /\ UNCHANGED detectorVars
    /\ UNCHANGED resilienceVars
    /\ UNCHANGED <<coalescer, audit, abac, events, usage, forest>>

(* set(key, value, ttl): at capacity the first key of the Map is deleted,   *)
(* then the entry is stored                                                 *)
CacheSet(key, ttl) ==
    /\ cache.ops < MaxRequests
    /\ LET before == cache.entries
           kept   == IF Len(before) >= cache.maxSize /\ before # <<>>
                     THEN MapDelete(before, before[1].key)
                     ELSE before
           after  == MapSet(kept, [key |-> key, expiry |-> now + ttl])
       IN  cache' = [cache EXCEPT
             !.ops = @ + 1,
             !.entries = after,
             !.used[key] = cache.ops + 1,
             !.last = [key     |-> key,
                       present |-> key \in KeysOf(before),
                       size    |-> Len(before),
                       evicted |-> KeysOf(before) \ KeysOf(after),
                       oldest  |-> {k \in KeysOf(before) :
                                      \A j \in KeysOf(before) :
                                          cache.used[k] <= cache.used[j]}]]
    /\ UNCHANGED detectorVars
    /\ UNCHANGED resilienceVars
    /\ UNCHANGED <<coalescer, audit, abac, events, usage, forest>>

(* delete(key) *)
CacheDelete(key) ==
    /\ key \in KeysOf(cache.entries)
    /\ cache' = [cache EXCEPT !.entries = MapDelete(@, key), !.last = NoSet]
    /\ UNCHANGED detectorVars
    /\ UNCHANGED resilienceVars
    /\ UNCHANGED <<coalescer, audit, abac, events, usage, forest>>

(* Time passes while the cache is in use *)
CacheTick ==
    /\ now < MaxLimit
    /\ now' = now + 1
    /\ cache' = [cache EXCEPT !.last = NoSet]
    /\ UNCHANGED detectorVars
    /\ UNCHANGED <<breaker, limiter, bulkhead>>
    /\ UNCHANGED <<coalescer, audit, abac, events, usage, forest>>

InitCache ==
    /\ DetectorUnused
    /\ ResilienceUnused
    /\ coalescer = <<>>
    /\ audit = <<>>
    /\ abac = <<>>
    /\ events = <<>>
    /\ cache \in {NewCache(maxSize) : maxSize \in 1..MaxLimit}
    /\ usage = <<>>
    /\ forest = <<>>

NextCache ==
    \/ \E key \in CacheKeys : CacheGet(key)
    \/ \E key \in CacheKeys, ttl \in 1..MaxLimit : CacheSet(key, ttl)
    \/ \E key \in CacheKeys : CacheDelete(key)
    \/ CacheTick

SpecCache == InitCache /\ [][NextCache]_vars

(* C25: the cache never holds more than maxSize entries; a set on a key     *)
(* already present evicts nothing; a set of a new key at capacity evicts    *)
(* exactly the entry whose most recent get or set is the oldest.            *)
C25_LRU ==
    /\ Len(cache.entries) <= cache.maxSize
    /\ (cache.last.key # "" /\ cache.last.present) => cache.last.evicted = {}
    /\ (cache.last.key # "" /\ ~cache.last.present /\ cache.last.size >= cache.maxSize) =>
          /\ Cardinality(cache.last.evicted) = 1
          /\ cache.last.evicted \subseteq cache.last.oldest

----------------------------------------------------------------------------
(* Windowing (src/src/lib/events/stream-processor.ts): applyWindow          *)
(* (196-216) and tumblingWindow (221-267).  An event is its id and its      *)
(* timestamp in milliseconds; a window is its windowStart, its windowEnd    *)
(* and its events.  Here the events variable holds the list handed to       *)
(* applyWindow, the window size and the windows returned.                   *)

(* [...events].sort by timestamp: a stable sort, the earlier first *)
RECURSIVE sortedEvents(_)
sortedEvents(evts) ==
    IF evts = <<>> THEN <<>>
    ELSE LET n      == Len(evts)
             rest   == sortedEvents(SubSeq(evts, 1, n - 1))
             before == SelectSeq(rest, LAMBDA e : e.timestamp <= evts[n].timestamp)
             after  == SelectSeq(rest, LAMBDA e : e.timestamp > evts[n].timestamp)
         IN  before \o <<evts[n]>> \o after

(* The windows after a window is closed: an empty one is not pushed *)
CloseWindow(windows, start, size, current) ==
    IF current = <<>> THEN windows
    ELSE Append(windows, [windowStart |-> start, windowEnd |-> start + size,
                          events |-> current])

(* The loop of tumblingWindow from its i-th event on, with the window being *)
(* filled, and the closing of the final window                              *)
RECURSIVE tumblingLoop(_, _, _, _, _, _)
tumblingLoop(evts, size, i, start, current, windows) ==
    IF i > Len(evts) THEN CloseWindow(windows, start, size, current)
    ELSE IF evts[i].timestamp < start + size
    THEN tumblingLoop(evts, size, i + 1, start, Append(current, evts[i]), windows)
    ELSE tumblingLoop(evts, size, i + 1, start + size, <<evts[i]>>,
                      CloseWindow(windows, start, size, current))

tumblingWindow(evts, size) ==
    IF evts = <<>> THEN <<>>
    ELSE tumblingLoop(evts, size, 1, evts[1].timestamp, <<>>, <<>>)

(* applyWindow(events, {type: 'tumbling', size}) *)
applyWindow(evts, size) ==
    IF evts = <<>> THEN <<>> ELSE tumblingWindow(sortedEvents(evts), size)

(* The lists of events handed to applyWindow: up to three events, with ids  *)
(* in the order given                                                       *)
WindowInputs ==
    UNION {{[i \in 1..n |-> [id |-> i, timestamp |-> ts[i]]] : ts \in [1..n -> 0..MaxNow]} :
              n \in 0..3}

ApplyWindow ==
    /\ ~events.applied
    /\ events' = [events EXCEPT !.applied = TRUE,
                                !.windows = applyWindow(events.input, events.size)]
    /\ UNCHANGED detectorVars
    /\ UNCHANGED resilienceVars
    /\ UNCHANGED <<coalescer, audit, abac, cache, usage, forest>>

InitWindow ==
    /\ DetectorUnused
    /\ ResilienceUnused
    /\ coalescer = <<>>
    /\ audit = <<>>
    /\ abac = <<>>
    /\ events \in {[input |-> input, size |-> size, applied |-> FALSE, windows |-> <<>>] :
                       input \in WindowInputs, size \in 1..MaxLimit}
    /\ cache = <<>>
    /\ usage = <<>>
    /\ forest = <<>>

NextWindow == ApplyWindow

SpecWindow == InitWindow /\ [][NextWindow]_vars

(* The windows that hold the event with this id *)
WindowsOf(id) ==
    {w \in DOMAIN events.windows :
        \E j \in DOMAIN events.windows[w].events : events.windows[w].events[j].id = id}

(* C26: for every list of events and every windowSize > 0, tumbling         *)
(* windowing puts each event in exactly one window, the windows' intervals  *)
(* [start, end) do not overlap, and each event's timestamp lies inside the  *)
(* interval of the window that holds it.                                    *)
C26_Tumbling ==
    events.applied =>
        /\ \A i \in DOMAIN events.input : Cardinality(WindowsOf(i)) = 1
        /\ \A v, w \in DOMAIN events.windows :
              v < w => events.windows[v].windowEnd <= events.windows[w].windowStart
        /\ \A w \in DOMAIN events.windows : \A j \in DOMAIN events.windows[w].events :
              /\ events.windows[w].windowStart <= events.windows[w].events[j].timestamp
              /\ events.windows[w].events[j].timestamp < events.windows[w].windowEnd

----------------------------------------------------------------------------
(* The mad detector and the order of the data *)

(* C27: the mad detector uses the true median of the absolute deviations    *)
(* from the median, so its isAnomaly and score are those it gives on the    *)
(* same data in any other order (here: in ascending order).                 *)
C27_MadOrderFree ==
    (Voted /\ FiniteInput /\ HasEntry("mad") /\ Len(historicalData) >= 2) =>
        /\ mad4Of(historicalData) = TrueMad4(historicalData)
        /\ EntryNamed("mad").isAnomaly = mad(call.value, SortAsc(historicalData)).isAnomaly
        /\ EntryNamed("mad").score = mad(call.value, SortAsc(historicalData)).score

----------------------------------------------------------------------------
(* The lof detector's range *)

(* C30: the lof detector never returns isAnomaly = true and its score never *)
(* exceeds 0.5, for every value and every data array, because the mean of   *)
(* the k nearest distances cannot exceed the k-th nearest distance.         *)
C30_LofNeverFlags ==
    (Voted /\ HasEntry("lof")) =>
        /\ ~EntryNamed("lof").isAnomaly
        /\ EntryNamed("lof").score = NaN \/ EntryNamed("lof").score <= Scale \div 2
        /\ (FiniteInput /\ Len(historicalData) >= 6) =>
              SumSeq(lofDistances(call.value, historicalData, 5))
                  <= 5 * lofDistances(call.value, historicalData, 5)[5]

(* lof ran on six points or more and gave a score just under 0.5: the five  *)
(* nearest points are all at the same positive distance                     *)
C30_Witness ==
    /\ Voted
    /\ FiniteInput
    /\ HasEntry("lof")
    /\ Len(historicalData) >= 6
    /\ lofDistances(call.value, historicalData, 5)[1] > 0
    /\ EntryNamed("lof").score > (4 * Scale) \div 10

----------------------------------------------------------------------------
(* Two successive detect() calls on one detector and one history *)

PairHistories ==
    {Cyc(p, n) : p \in [1..2 -> Values], n \in {MaxLen - 4, MaxLen}}

PairCandidates == 0..(MaxVal + 2)

PairConfigs ==
    [algorithms        : {<<"ensemble">>, <<"zscore">>, <<"mad">>, <<"iqr">>, <<"lof">>},
     sensitivity       : {DefaultConfig.sensitivity},
     ensembleWeighting : {"adaptive", "confidence"},
     minDataPoints     : {0}]
    \cup
    {[DefaultConfig EXCEPT !.algorithms = <<"isolation-forest">>,
                           !.minDataPoints = 0]}

InitPair ==
    /\ config \in PairConfigs
    /\ historicalData \in PairHistories
    /\ DetectorNew
    /\ ResilienceUnused
    /\ PlatformUnused

NextPair == \E value \in PairCandidates : calls < 2 /\ Detect(value)

SpecPair == InitPair /\ [][NextPair]_vars

(* Both calls made, and both returned the ensemble's verdict *)
BothVoted ==
    /\ calls = 2
    /\ prior.status = "returned"
    /\ call.status = "returned"
    /\ Len(historicalData) >= config.minDataPoints

(* The isolation detector ran its random trials *)
RandomTrials ==
    /\ shouldRunAlgorithm("isolation-forest")
    /\ Len(historicalData) >= 10

(* n * (value - mean) of the history *)
FromMean(value) == Len(historicalData) * value - SumSeq(historicalData)

(* C14: for one history and one configuration, when the second value is on *)
(* the same side of the historical mean as the first and at least as far   *)
(* from it, its final score is not lower (stated where no random trial is  *)
(* involved).                                                              *)
C14_Monotone ==
    (/\ BothVoted
     /\ ~RandomTrials
     /\ \/ (FromMean(prior.value) > 0 /\ FromMean(call.value) >= FromMean(prior.value))
        \/ (FromMean(prior.value) < 0 /\ FromMean(call.value) <= FromMean(prior.value)))
    => call.result.score >= prior.result.score

----------------------------------------------------------------------------
(* C11: the default detector, on 30 copies of 100 and the value 1000,       *)
(* reports an anomaly of severity warning or critical with a deviation      *)
(* above 3.                                                                 *)
C11_ConstantSpike ==
    (Voted /\ config = DefaultConfig
           /\ historicalData = Cyc(<<100>>, 30) /\ call.value = 1000) =>
        /\ call.result.isAnomaly
        /\ call.result.severity \in {"warning", "critical"}
        /\ call.result.explanation.deviation > 3 * Scale

(* C12: the default detector, on 49,51,50,50,48,52 repeated to 30 points    *)
(* and the value 200, reports an anomaly of severity critical.              *)
C12_NoisySpike ==
    (Voted /\ config = DefaultConfig
           /\ historicalData = Cyc(<<49, 51, 50, 50, 48, 52>>, 30)
           /\ call.value = 200) =>
        /\ call.result.isAnomaly
        /\ call.result.severity = "critical"

(* C13: the default detector, on 100,102,98,101,99 repeated 6 times and the *)
(* value 102, reports no anomaly, whatever depths the isolation trials      *)
(* return.                                                                  *)
C13_NoiseNotAnomaly ==
    (Voted /\ config = DefaultConfig
           /\ historicalData = Cyc(<<100, 102, 98, 101, 99>>, 30)
           /\ call.value = 102) =>
        call.result.isAnomaly = FALSE

C13_Witness ==
    /\ Voted
    /\ config = DefaultConfig
    /\ historicalData = Cyc(<<100, 102, 98, 101, 99>>, 30)
    /\ call.value = 102
    /\ Len(call.result.algorithms) = 5
    /\ call.result.score > 0
    /\ call.result.isAnomaly = FALSE

(* n^2 times the population variance of data: n * (sum of x^2) - (sum)^2 *)
VarianceN2(data) ==
    Len(data) * SumSeq([i \in 1..Len(data) |-> data[i] * data[i]])
        - SumSeq(data) * SumSeq(data)

(* C17: in every result produced after the detectors ran (on a finite       *)
(* value), expectedRange is [mean - 2*sigma, mean + 2*sigma] with sigma the *)
(* population standard deviation of the history, and deviation is           *)
(* |value - mean| / sigma when sigma > 0 and 0 when sigma = 0; each number  *)
(* to the precision 1/Scale, rounded down.                                  *)
C17_Explanation ==
    (Voted /\ FiniteInput) =>
        LET n     == Len(historicalData)
            s     == SumSeq(historicalData)
            v     == VarianceN2(historicalData)
            d     == n * call.value - s
            e     == call.result.explanation
            mean2 == e.expectedRange[1] + e.expectedRange[2]
            sig4  == e.expectedRange[2] - e.expectedRange[1]
            mean  == mean2 \div 2
            sigma == sig4 \div 4
            z2    == LongDiv(d * d, v, 6).q
        IN  /\ mean2 % 2 = 0 /\ sig4 % 4 = 0 /\ sigma >= 0
            /\ n * mean <= Scale * s /\ Scale * s < n * (mean + 1)
            /\ sigma * sigma * n * n <= Scale * Scale * v
            /\ Scale * Scale * v < (sigma + 1) * (sigma + 1) * n * n
            /\ IF v > 0
               THEN /\ e.deviation >= 0
                    /\ e.deviation * e.deviation <= z2
                    /\ z2 < (e.deviation + 1) * (e.deviation + 1)
               ELSE e.deviation = 0

C17_Witness ==
    /\ Voted
    /\ FiniteInput
    /\ Len(historicalData) >= 3
    /\ VarianceN2(historicalData) > 0
    /\ call.result.explanation.deviation > 2 * Scale
    /\ call.result.explanation.expectedRange[1] < 0
    /\ call.result.explanation.expectedRange[2] > Scale

----------------------------------------------------------------------------
(* C31: when config.algorithms contains "ensemble" (all five detectors      *)
(* run), detect() never returns severity "critical", for every candidate    *)
(* value, every history and every ensembleWeighting.                        *)
C31_NeverCritical ==
    (Returned /\ "ensemble" \in Range(config.algorithms)) =>
        call.result.severity # "critical"

(* The five detectors ran, four of them flagged the value, the verdict is   *)
(* an anomaly with a score above 0.8, and the severity is below critical    *)
C31_Witness ==
    /\ Voted
    /\ "ensemble" \in Range(config.algorithms)
    /\ Len(call.result.algorithms) = 5
    /\ Cardinality({i \in 1..5 : call.result.algorithms[i].isAnomaly}) = 4
    /\ call.result.isAnomaly
    /\ call.result.score > (8 * Scale) \div 10
    /\ call.result.severity \in {"warning", "info"}

----------------------------------------------------------------------------
(* UsageBillingEngine.recordUsage (src/src/lib/billing/usage-engine.ts) as  *)
(* the event loop and the database run it: findFirst, then update or        *)
(* create, then the metric, each behind an await, so that the statements of *)
(* other calls run in between.  One customer; a date is <<month, day>>.     *)
(* The schema of usageRecord is not part of the sources: the table either   *)
(* has a unique index on (organizationId, metric, periodStart, periodEnd),  *)
(* and a second create of the same key fails, or it has none.               *)

UsageMetrics == {"api_calls", "anomalies_detected"}

Timestamps == {<<1, 1>>, <<1, 15>>, <<2, 1>>}

(* setDate(1), setHours(0, 0, 0, 0) *)
getPeriodStart(date) == <<date[1], 1>>

(* setMonth(month + 1), setDate(0): the last day of the month of start *)
getPeriodEnd(start) == <<start[1], 30>>

UsageEvents ==
    [metric : UsageMetrics, quantity : 1..MaxLimit, timestamp : Timestamps]

(* The where clause of findFirst, and the key columns create writes *)
UsageKey(event) ==
    [metric      |-> event.metric,
     periodStart |-> getPeriodStart(event.timestamp),
     periodEnd   |-> getPeriodEnd(getPeriodStart(event.timestamp))]

UsageKeys == {UsageKey(event) : event \in UsageEvents}

(* The rows of the table that match a key; a row's id is its position *)
UsageMatches(key) ==
    {id \in 1..Len(usage.records) : usage.records[id].key = key}

NewUsage(unique) ==
    [unique   |-> unique,
     records  |-> <<>>,
     inflight |-> <<>>,
     made     |-> 0,
     recorded |-> [key \in UsageKeys |-> 0],
     failed   |-> 0]

(* recordUsage(event) up to its first await: the findFirst query is sent *)
RecordUsageBegin(event) ==
    /\ usage.made < MaxLimit + 1
    /\ Len(usage.inflight) < 2
    /\ usage' = [usage EXCEPT
          !.made = @ + 1,
          !.inflight = Append(@, [event |-> event, pc |-> "findFirst", existing |-> 0,
                                  quantity |-> 0])]
    /\ UNCHANGED detectorVars
    /\ UNCHANGED resilienceVars
    /\ UNCHANGED <<coalescer, audit, abac, events, cache, forest>>

(* The database answers findFirst: a matching row (its id and the quantity *)
(* it holds now) or null; with several matching rows and no orderBy, any   *)
(* of them                                                                 *)
RecordUsageFind(i) ==
    /\ i \in 1..Len(usage.inflight)
    /\ usage.inflight[i].pc = "findFirst"
    /\ LET matches == UsageMatches(UsageKey(usage.inflight[i].event))
       IN  IF matches = {}
           THEN usage' = [usage EXCEPT !.inflight[i].pc = "create"]
           ELSE \E id \in matches :
                  usage' = [usage EXCEPT
                     !.inflight[i].pc = "update",
                     !.inflight[i].existing = id,
                     !.inflight[i].quantity = usage.records[id].quantity]
    /\ UNCHANGED detectorVars
    /\ UNCHANGED resilienceVars
    /\ UNCHANGED <<coalescer, audit, abac, events, cache, forest>>

(* The database runs the update (quantity: existing.quantity +             *)
(* event.quantity, from the row as findFirst returned it) or the create;   *)
(* a create that violates the unique index rejects, the catch block logs   *)
(* and rethrows, and the call ends without the metric                      *)
RecordUsageWrite(i) ==
    /\ i \in 1..Len(usage.inflight)
    /\ LET c   == usage.inflight[i]
           key == UsageKey(c.event)
       IN  \/ /\ c.pc = "update"
              /\ usage' = [usage EXCEPT
                    !.records[c.existing].quantity = c.quantity + c.event.quantity,
                    !.inflight[i].pc = "increment"]
           \/ /\ c.pc = "create"
              /\ IF usage.unique /\ UsageMatches(key) # {}
                 THEN usage' = [usage EXCEPT
                         !.inflight = Without(@, i),
                         !.failed = @ + 1]
                 ELSE usage' = [usage EXCEPT
                         !.records = Append(@, [key |-> key, quantity |-> c.event.quantity]),
                         !.inflight[i].pc = "increment"]
    /\ UNCHANGED detectorVars
    /\ UNCHANGED resilienceVars
    /\ UNCHANGED <<coalescer, audit, abac, events, cache, forest>>

(* observability.increment('billing.usage_recorded') and the return: the   *)
(* event is recorded                                                       *)
RecordUsageEnd(i) ==
    /\ i \in 1..Len(usage.inflight)
    /\ usage.inflight[i].pc = "increment"
    /\ LET c == usage.inflight[i]
       IN  usage' = [usage EXCEPT
              !.inflight = Without(@, i),
              !.recorded[UsageKey(c.event)] = @ + c.event.quantity]
    /\ metricKeys' = metricKeys \cup {"billing.usage_recorded"}
    /\ UNCHANGED detectorOnly
    /\ UNCHANGED resilienceVars
    /\ UNCHANGED <<coalescer, audit, abac, events, cache, forest>>

InitUsage ==
    /\ DetectorUnused
    /\ ResilienceUnused
    /\ coalescer = <<>>
    /\ audit = <<>>
    /\ abac = <<>>
    /\ events = <<>>
    /\ cache = <<>>
    /\ usage \in {NewUsage(unique) : unique \in BOOLEAN}
    /\ forest = <<>>

NextUsage ==
    \/ \E event \in UsageEvents : RecordUsageBegin(event)
    \/ \E i \in 1..2 : RecordUsageFind(i)
    \/ \E i \in 1..2 : RecordUsageWrite(i)
    \/ \E i \in 1..2 : RecordUsageEnd(i)

SpecUsage == InitUsage /\ [][NextUsage]_vars

(* C32: once the recordUsage calls made have all returned, every            *)
(* (customer, metric, period) for which events were recorded has exactly    *)
(* one usage record, and its quantity is the sum of the quantities of the   *)
(* recorded events, whether the calls ran one after another or overlapped.  *)
C32_UsageSummed ==
    (usage.inflight = <<>> /\ usage.failed = 0) =>
        \A key \in UsageKeys :
            usage.recorded[key] > 0 =>
                /\ Cardinality(UsageMatches(key)) = 1
                /\ \A id \in UsageMatches(key) :
                       usage.records[id].quantity = usage.recorded[key]

----------------------------------------------------------------------------
(* C33: with only the default policies registered, evaluate() denies a      *)
(* subject with role MEMBER or ADMIN performing action "delete" or "modify" *)
(* on a resource of sensitivity "high" whenever environment.hour is below 9 *)
(* or above 17.                                                             *)
C33_AfterHoursDenied ==
    (abac.accessLogs # <<>> /\ abac.edits = 0) =>
        LET context == abac.accessLogs[1].context
        IN  (/\ context.subject.role \in {"MEMBER", "ADMIN"}
             /\ context.action \in {"delete", "modify"}
             /\ context.resource.sensitivity = "high"
             /\ (context.environment.hour < 9 \/ context.environment.hour > 17))
            => ~abac.decision.allowed

----------------------------------------------------------------------------
(* C34: every span detect() starts has been ended (removed from the         *)
(* tracer's active spans) by the time detect() returns or throws, on every  *)
(* path, the insufficient-data short-circuit included: once a call has      *)
(* ended, the tracer holds no span.                                         *)
C34_SpansEnded ==
    (Returned \/ Thrown) => activeSpans = 0

----------------------------------------------------------------------------
(* The threshold the specification gives for a sensitivity, in tenths *)
StatedThreshold10 ==
    CASE config.sensitivity = "low"      -> 7
      [] config.sensitivity = "medium"   -> 6
      [] config.sensitivity = "high"     -> 5
      [] config.sensitivity = "adaptive" -> 6

(* C35: the final verdict is isAnomaly = (weightedScore > threshold),       *)
(* strictly greater, with threshold 0.7 for sensitivity low, 0.6 for        *)
(* medium, 0.5 for high and 0.6 for adaptive.                               *)
C35_Verdict ==
    (Voted /\ FiniteInput) =>
        call.result.isAnomaly = (10 * call.result.score > StatedThreshold10 * Scale)

(* A score equal to the threshold is not an anomaly *)
C35_Witness ==
    /\ Voted
    /\ FiniteInput
    /\ Len(call.result.algorithms) > 0
    /\ 10 * call.result.score = StatedThreshold10 * Scale
    /\ ~call.result.isAnomaly

----------------------------------------------------------------------------
(* The number of detectors run that reported isAnomaly *)
Agreeing ==
    Cardinality({i \in 1..Len(call.result.algorithms) :
                    call.result.algorithms[i].isAnomaly})

(* C36: with agreement = (detectors reporting isAnomaly) / (detectors run), *)
(* the returned confidence is agreement * weightedScore when the verdict is *)
(* an anomaly and (1 - agreement) * (1 - weightedScore) otherwise.          *)
C36_Confidence ==
    (Voted /\ FiniteInput /\ Len(call.result.algorithms) > 0) =>
        LET n == Len(call.result.algorithms)
        IN  call.result.confidence =
                IF call.result.isAnomaly
                THEN (Agreeing * call.result.score) \div n
                ELSE ((n - Agreeing) * (Scale - call.result.score)) \div n

(* Some detectors flag the value and some do not, in an anomaly verdict *)
C36_Witness ==
    /\ Voted
    /\ FiniteInput
    /\ call.result.isAnomaly
    /\ Agreeing > 0
    /\ Agreeing < Len(call.result.algorithms)
    /\ call.result.confidence > 0
    /\ call.result.confidence < call.result.score

(* C37: the returned severity is "critical" when score * confidence > 0.8,  *)
(* "warning" when score * confidence > 0.6 and not above 0.8, and "info"    *)
(* otherwise.                                                               *)
C37_Severity ==
    (Voted /\ FiniteInput) =>
        LET combined == call.result.score * call.result.confidence
        IN  call.result.severity =
                IF 10 * combined > 8 * Scale * Scale THEN "critical"
                ELSE IF 10 * combined > 6 * Scale * Scale THEN "warning"
                ELSE "info"

(* A verdict of severity "warning": score * confidence in (0.6, 0.8] *)
C37_Witness ==
    /\ Voted
    /\ FiniteInput
    /\ call.result.severity = "warning"
    /\ 10 * call.result.score * call.result.confidence > 6 * Scale * Scale
    /\ 10 * call.result.score * call.result.confidence <= 8 * Scale * Scale

(* The weight the specification gives a detector's entry *)
StatedWeight(entry) ==
    CASE config.ensembleWeighting = "confidence" -> entry.score + Scale \div 10
      [] config.ensembleWeighting = "performance" ->
            IF entry.name \in DOMAIN performance THEN performance[entry.name]
            ELSE Scale
      [] OTHER -> Scale

(* C38: the weighted score is sum(score_i * weight_i) / sum(weight_i) over  *)
(* the detectors run, with weight_i = score_i + 0.1 in "confidence" mode,   *)
(* the supplied performance value, or 1 if unknown, in "performance" mode,  *)
(* and 1 in "adaptive" or any other mode.                                   *)
C38_WeightedScore ==
    (Voted /\ FiniteInput /\ Len(call.result.algorithms) > 0) =>
        LET algs == call.result.algorithms
            n    == Len(algs)
        IN  call.result.score =
                SumSeq([i \in 1..n |-> algs[i].score * StatedWeight(algs[i])])
                    \div SumSeq([i \in 1..n |-> StatedWeight(algs[i])])

(* "confidence" mode with detectors of different scores: the weighted score *)
(* is above their plain mean                                                *)
C38_Witness ==
    /\ Voted
    /\ FiniteInput
    /\ config.ensembleWeighting = "confidence"
    /\ Len(call.result.algorithms) >= 2
    /\ LET algs == call.result.algorithms
           n    == Len(algs)
       IN  /\ \E i, j \in 1..n : algs[i].score # algs[j].score
           /\ n * call.result.score > SumSeq([i \in 1..n |-> algs[i].score])

(* C39 as stated: run by the coordinator on data with sigma > 0, the        *)
(* z-score detector's entry has isAnomaly = (|value - mean| / sigma > 3)    *)
(* and score = min(|value - mean| / (3 * sigma), 1): threshold 3 under      *)
(* every config.sensitivity.                                                *)
C39_ThresholdThree ==
    (/\ Voted
     /\ FiniteInput
     /\ HasEntry("zscore")
     /\ Len(historicalData) >= 2
     /\ SumSq(historicalData) > 0) =>
        /\ EntryNamed("zscore").isAnomaly =
               (ZNum(call.value, historicalData) > 3 * 3 * ZDen(historicalData))
        /\ EntryNamed("zscore").score = zScore(call.value, historicalData, 3).score

(* The z-score threshold of a sensitivity *)
ThresholdOf(sensitivity) ==
    CASE sensitivity = "low"  -> 4
      [] sensitivity = "high" -> 2
      [] OTHER                -> 3

(* C39 as amended: the threshold is 4 under sensitivity low, 3 under medium *)
(* and adaptive, 2 under high: isAnomaly = (|value - mean| / sigma > t) and *)
(* score = min(|value - mean| / (t * sigma), 1).                            *)
C39_ThresholdBySensitivity ==
    (/\ Voted
     /\ FiniteInput
     /\ HasEntry("zscore")
     /\ Len(historicalData) >= 2
     /\ SumSq(historicalData) > 0) =>
        LET t == ThresholdOf(config.sensitivity)
        IN  /\ EntryNamed("zscore").isAnomaly =
                   (ZNum(call.value, historicalData) > t * t * ZDen(historicalData))
            /\ EntryNamed("zscore").score = zScore(call.value, historicalData, t).score

(* Under sensitivity high a value between 2 and 3 sigma from the mean is    *)
(* flagged                                                                  *)
C39_Witness ==
    /\ Voted
    /\ FiniteInput
    /\ HasEntry("zscore")
    /\ config.sensitivity = "high"
    /\ SumSq(historicalData) > 0
    /\ ZNum(call.value, historicalData) > 2 * 2 * ZDen(historicalData)
    /\ ZNum(call.value, historicalData) <= 3 * 3 * ZDen(historicalData)
    /\ EntryNamed("zscore").isAnomaly

----------------------------------------------------------------------------
(* MLDetectors.isolationForest (part_005, lines 1032-1081) statement by     *)
(* statement: the for loop over the trees, and in each isolationDepth call  *)
(* the while loop, one random split per iteration.  forest holds the        *)
(* arguments, the loop variables of both functions, and the result.         *)

(* The subsets one iteration of the while loop can leave, over the values  *)
(* Math.random() can return (see isolationDepths)                          *)
SplitOutcomes(value, subset) ==
    LET D    == Range(subset)
        k    == Cardinality(D)
        d(j) == CHOOSE x \in D : Cardinality({y \in D : y < x}) = j - 1
    IN  {IF j = 0 THEN <<>> ELSE SelectSeq(subset, LAMBDA x : x <= d(j)) :
            j \in {i \in 0..(k - 1) : value # NaN /\ value < d(i + 1)}}
        \cup
        {IF j = 0 THEN subset ELSE SelectSeq(subset, LAMBDA x : x > d(j)) :
            j \in {i \in 0..(k - 1) :
                      value = NaN \/ (IF i = 0 THEN value >= d(1) ELSE value > d(i))}}

NewForest(value, data) ==
    [value    |-> value,
     data     |-> data,
     pc       |-> "call",
     i        |-> 0,
     depths   |-> <<>>,
     subset   |-> <<>>,
     depth    |-> 0,
     maxDepth |-> 0,
     result   |-> [isAnomaly |-> FALSE, score |-> 0]]

(* isolationForest(value, data, numTrees): the length test *)
IsolationForestCall ==
    /\ forest.pc = "call"
    /\ forest' = IF Len(forest.data) < 10
                 THEN [forest EXCEPT !.pc = "done"]
                 ELSE [forest EXCEPT !.pc = "for"]
    /\ UNCHANGED detectorVars
    /\ UNCHANGED resilienceVars
    /\ UNCHANGED <<coalescer, audit, abac, events, cache, usage>>

(* for (i < numTrees): isolationDepth(value, data) is called *)
IsolationDepthCall ==
    /\ forest.pc = "for"
    /\ forest.i < NumTrees
    /\ forest' = [forest EXCEPT
          !.pc = "while",
          !.depth = 0,
          !.subset = forest.data,
          !.maxDepth = CeilLog2(Len(forest.data))]
    /\ UNCHANGED detectorVars
    /\ UNCHANGED resilienceVars
    /\ UNCHANGED <<coalescer, audit, abac, events, cache, usage>>

(* One iteration of while (subset.length > 1 && depth < maxDepth) *)
IsolationSplit ==
    /\ forest.pc = "while"
    /\ Len(forest.subset) > 1
    /\ forest.depth < forest.maxDepth
    /\ \E subset \in SplitOutcomes(forest.value, forest.subset) :
          forest' = [forest EXCEPT !.subset = subset, !.depth = @ + 1]
    /\ UNCHANGED detectorVars
    /\ UNCHANGED resilienceVars
    /\ UNCHANGED <<coalescer, audit, abac, events, cache, usage>>

(* The while loop ends: return depth, depths.push(depth), i++ *)
IsolationDepthReturn ==
    /\ forest.pc = "while"
    /\ ~(Len(forest.subset) > 1 /\ forest.depth < forest.maxDepth)
    /\ forest' = [forest EXCEPT
          !.pc = "for",
          !.i = @ + 1,
          !.depths = Append(@, forest.depth)]
    /\ UNCHANGED detectorVars
    /\ UNCHANGED resilienceVars
    /\ UNCHANGED <<coalescer, audit, abac, events, cache, usage>>

(* The for loop ends: the score from the average depth *)
IsolationForestReturn ==
    /\ forest.pc = "for"
    /\ forest.i = NumTrees
    /\ forest' = [forest EXCEPT
          !.pc = "done",
          !.result = isolationForest(forest.value, forest.data, NumTrees,
                                     SumSeq(forest.depths))]
    /\ UNCHANGED detectorVars
    /\ UNCHANGED resilienceVars
    /\ UNCHANGED <<coalescer, audit, abac, events, cache, usage>>

(* Data of 9, 10 and 11 points when MaxLen is 11 *)
ForestData == {Cyc(p, n) : p \in Patterns, n \in (MaxLen - 2)..MaxLen}

InitForest ==
    /\ DetectorUnused
    /\ ResilienceUnused
    /\ coalescer = <<>>
    /\ audit = <<>>
    /\ abac = <<>>
    /\ events = <<>>
    /\ cache = <<>>
    /\ usage = <<>>
    /\ forest \in {NewForest(value, data) : value \in Candidates, data \in ForestData}

NextForest ==
    \/ IsolationForestCall
    \/ IsolationDepthCall
    \/ IsolationSplit
    \/ IsolationDepthReturn
    \/ IsolationForestReturn

SpecForest == InitForest /\ [][NextForest]_vars

(* The call is not suspended anywhere: it runs to its return *)
FairForest == SpecForest /\ WF_vars(NextForest)

(* Every finished trial has a depth in 1..ceil(log2(n)), and the score     *)
(* returned for n >= 10 is strictly between 0 and 1                        *)
C40_Depths ==
    Len(forest.data) >= 10 =>
        /\ \A t \in DOMAIN forest.depths :
               /\ forest.depths[t] >= 1
               /\ forest.depths[t] <= CeilLog2Iter(Len(forest.data), 0, 1)
        /\ forest.pc = "done" =>
               /\ Len(forest.depths) = NumTrees
               /\ forest.result.score > 0
               /\ forest.result.score < Scale

(* C40: for data of length n >= 10 and every sequence of random splits,     *)
(* each isolation trial ends with a depth d, 1 <= d <= ceil(log2(n)), so    *)
(* isolationForest ends after numTrees trials and returns a score strictly  *)
(* between 0 and 1.                                                         *)
C40_Terminates ==
    /\ [](C40_Depths)
    /\ <>(forest.pc = "done")

(* The forest has returned on data of at least 10 points, one trial cut    *)
(* off at the depth limit and another isolating the value before it        *)
C40_Witness ==
    /\ forest.pc = "done"
    /\ Len(forest.data) >= 10
    /\ \E t \in DOMAIN forest.depths :
           forest.depths[t] = CeilLog2Iter(Len(forest.data), 0, 1)
    /\ \E t \in DOMAIN forest.depths :
           forest.depths[t] < CeilLog2Iter(Len(forest.data), 0, 1)
    /\ forest.result.score > 0

====
